---- MODULE Spec2Model ----
(***************************************************************************)
(* Arduino Opta Modbus controller: the device/register synchronisation     *)
(* engine (ModbusItem), the safe-state coordinator (ModbusHandler), the    *)
(* relay family (Relay.h), the heartbeat (Heartbeat.h) and the sketch's    *)
(* setup()/loop().                                                         *)
(*                                                                         *)
(* The program is single threaded: setup() and every loop() iteration run  *)
(* to completion, so each is one action.  Sequential code is written as    *)
(* operators from a program-state record s to the record after the call.   *)
(*                                                                         *)
(* Time.  millis() is a wrapping unsigned counter.  The model looks at the *)
(* program at up to MaxTicks + 1 instants of a run; from one to the next   *)
(* the clock steps by TickMs, which is shorter than the Ethernet check     *)
(* interval, or by LongTickMs, half the heartbeat delay.  loop() iterates   *)
(* once at each instant; its iterations between two instants are those     *)
(* that change nothing.  The clock wraps at ClockMod, 2^30 in place  *)
(* of 2^32 (the model checker's integers have 32 bits); a run that is to   *)
(* see the wrap starts with the clock just before it.  All durations keep  *)
(* the source's values.                                                    *)
(*                                                                         *)
(* A run's environment is fixed in env when the run starts: which          *)
(* registers clients write, what the Ethernet library answers, which calls *)
(* the log records.  Each specification below picks the item list and the  *)
(* environment its claims are about.                                       *)
(***************************************************************************)
EXTENDS Integers, Sequences, FiniteSets, TLC

\* ---------------------------------------------------------------- bounds
TickMs == 400       \* a short step of the clock, in ms
LongTickMs == 150000   \* a long step of the clock, in ms
MaxTicks == 5       \* steps of the clock in one run
ClockMod == 1073741824   \* millis() wraps here (2^30, standing for 2^32)

\* ------------------------------------------------------ program constants
HEARTBEAT_DELAY == 300000  \* config.example.h
RELAY_MAX_ON == 300000     \* config.example.h
EthCheckInterval == 500    \* ModbusHandler::checkEthernet: interval
InitialUpdateInterval == 100   \* sketch: updateInterval
MsPerSecond == 1000        \* SafeRelay: 1000UL
INVALID_VALUE == 65535
Uint16Mod == 65536

IGNORE == 0
SWITCH_ON == 1
SWITCH_OFF == 2
RESTORE == 3
SafeAction == {IGNORE, SWITCH_ON, SWITCH_OFF, RESTORE}

ERR_HEARTBEAT == 16
ERR_EXPANSION == 8
ERR_MODBUS == 4
ERR_GENERAL == 2
ERR_SENSOR == 1

\* Ethernet.maintain() results: 0 nothing, 1 renew failed, 2 renew ok,
\* 3 rebind failed, 4 rebind ok.
MaintainResults == 0..4
\* Ethernet.linkStatus()
LinkStatus == {"LinkON", "LinkOFF"}

\* Values a client writes into a holding register.
ClientVals == {0, 1}
\* Values a client writes into the register of updateFreq, in ms: the clock's
\* short step and more than it.
IntervalVals == {TickMs, TickMs + 100}

VARIABLES
    pc,             \* "boot" before setup(), then "loop" before and "looped"
                    \* after the iteration of loop() at an instant; "unit"
                    \* when a relay's methods are called directly
    now,            \* millis()
    ticks,          \* steps of the clock so far
    items,          \* modbusList: the devices' kinds and policies, fixed
    env,            \* what the environment does in this run, fixed
    dev,            \* the devices' fields, by list index
    lastValue,      \* ModbusItem::_lastValue, by list index
    lastValue2,     \* ModbusItem::_lastValue2
    coils,          \* register map: coils, by index (address - offset)
    holding,        \* register map: holding registers
    discrete,       \* register map: discrete inputs
    inputRegs,      \* register map: input registers
    serverOk,       \* ModbusTCPServer::begin() has succeeded
    linkWasDown,    \* ModbusHandler::_linkWasDown
    isSafeState,    \* ModbusHandler::_isSafeState
    nextCheck,      \* checkEthernet: static nextCheck
    lastUpdate,     \* sketch global
    updateInterval, \* sketch global
    errorCode,      \* sketch global
    wasAlive,       \* sketch global
    isAlive,        \* sketch global
    hist,           \* history: per item, whether enterSafeState was called
                    \* with no leaveSafeState since, the output level before
                    \* that call and whether setFromCoil ran since
    lastLink,       \* history: what the last Ethernet check read as link status
    log             \* history: the calls made by the last setup()/loop()

vars == <<pc, now, ticks, items, env, dev, lastValue, lastValue2, coils, holding, discrete,
          inputRegs, serverOk, linkWasDown, isSafeState, nextCheck, lastUpdate,
          updateInterval, errorCode, wasAlive, isAlive, hist, lastLink, log>>

\* The program state as one record, threaded through the calls.
State ==
    [now |-> now, items |-> items, env |-> env, dev |-> dev, lastValue |-> lastValue,
     lastValue2 |-> lastValue2, coils |-> coils, holding |-> holding,
     discrete |-> discrete, inputRegs |-> inputRegs, serverOk |-> serverOk,
     linkWasDown |-> linkWasDown, isSafeState |-> isSafeState,
     nextCheck |-> nextCheck, lastUpdate |-> lastUpdate,
     updateInterval |-> updateInterval, errorCode |-> errorCode,
     wasAlive |-> wasAlive, isAlive |-> isAlive, hist |-> hist,
     lastLink |-> lastLink, log |-> log]

Becomes(s) ==
    /\ now' = s.now
    /\ items' = s.items
    /\ env' = s.env
    /\ dev' = s.dev
    /\ lastValue' = s.lastValue
    /\ lastValue2' = s.lastValue2
    /\ coils' = s.coils
    /\ holding' = s.holding
    /\ discrete' = s.discrete
    /\ inputRegs' = s.inputRegs
    /\ serverOk' = s.serverOk
    /\ linkWasDown' = s.linkWasDown
    /\ isSafeState' = s.isSafeState
    /\ nextCheck' = s.nextCheck
    /\ lastUpdate' = s.lastUpdate
    /\ updateInterval' = s.updateInterval
    /\ errorCode' = s.errorCode
    /\ wasAlive' = s.wasAlive
    /\ isAlive' = s.isAlive
    /\ hist' = s.hist
    /\ lastLink' = s.lastLink
    /\ log' = s.log

\* ------------------------------------------------------------- arithmetic
\* a - b on the wrapping millisecond counter.
Elapsed(a, b) == (a - b + ClockMod) % ClockMod

\* w = bit in place of w |= bit: the other bits are lost.
SetBitOverwrites(w, bit) == bit

\* w in place of w & ~bit: the bit is never cleared.
ClearBitKeeps(w, bit) == w

\* w | bit and w & ~bit, for a one-bit mask.
HasBit(w, bit) == (w \div bit) % 2 = 1
SetBit(w, bit) == IF HasBit(w, bit) THEN w ELSE w + bit
ClearBit(w, bit) == IF HasBit(w, bit) THEN w - bit ELSE w

BoolToInt(b) == IF b THEN 1 ELSE 0
\* static_cast<bool>(uint16_t)
IntToBool(v) == v # 0

NumItems(s) == Len(s.items)
Indices(s) == 0 .. (NumItems(s) - 1)
\* modbusList[i]
Item(s, i) == s.items[i + 1]

\* Every item gets the base address 0.
BaseAddressShared(s, i) == 0

\* ModbusItem::_baseAddress after setupItems(): _items[i].setup(i).  The
\* register spaces are kept apart and each is indexed from 0: the address on
\* the wire is the space's offset plus this.
BaseAddress(s, i) == i

\* The offsets of the four register spaces.
MODBUS_COIL_OFFSET == 0
MODBUS_DISCRETE_OFFSET == 10000
MODBUS_INPUT_OFFSET == 30000
MODBUS_HOLDING_OFFSET == 40000

\* History only: one entry of the log of calls.  a and b are the call's
\* values (for a relay's enter/leave: the output level before and after it).
Ev(call, i, a, b) == [call |-> call, i |-> i, a |-> a, b |-> b]
Emit(s, e) == IF e.call \in s.env.trace THEN [s EXCEPT !.log = Append(@, e)] ELSE s

\* The element of a one-element set: a state worked out once, then used.
Only(S) == CHOOSE x \in S : TRUE

\* ------------------------------------------------------------------ kinds
RelayKinds == {"SafeRelay", "StableRelay"}
IsRelay(s, i) == Item(s, i).kind \in RelayKinds

\* IODevice::getType(), as set by each constructor.
GetType(s, i) ==
    CASE Item(s, i).kind \in RelayKinds -> "Coil"
      [] Item(s, i).kind = "Heartbeat" -> "HoldingRegister"
      [] Item(s, i).kind = "Variable" -> "HoldingRegister"
      [] Item(s, i).kind = "DiscreteInput" -> "DiscreteInput"
      [] Item(s, i).kind = "AnalogInput" -> "InputRegister"
      [] OTHER -> "Undefined"

\* The fields of a device right after construction.
NewDevice ==
    [state |-> FALSE, stateBeforeSafeState |-> FALSE, inSafeState |-> FALSE,
     startTime |-> 0, maxOnTime |-> RELAY_MAX_ON,
     alive |-> FALSE, lastChange |-> 0, val |-> 0]

NewHist == [entered |-> FALSE, pre |-> FALSE, written |-> FALSE]

\* ------------------------------------------------------------------ Relay
\* SafeRelay::on keeping the start time of a relay that is on already.
onKeepsStartTime(s, i) ==
    IF Item(s, i).kind = "SafeRelay" /\ ~s.dev[i].state
    THEN [s EXCEPT !.dev[i].state = TRUE, !.dev[i].startTime = s.now]
    ELSE [s EXCEPT !.dev[i].state = TRUE]

\* SafeRelay::on / StableRelay::on.  History: the call is logged with
\* millis().
on(s, i) ==
    IF Item(s, i).kind = "SafeRelay"
    THEN Emit([s EXCEPT !.dev[i].state = TRUE, !.dev[i].startTime = s.now],
              Ev("on", i, s.now, s.now))
    ELSE Emit([s EXCEPT !.dev[i].state = TRUE], Ev("on", i, s.now, s.now))

\* SafeRelay::off / StableRelay::off
off(s, i) ==
    IF Item(s, i).kind = "SafeRelay"
    THEN [s EXCEPT !.dev[i].state = FALSE, !.dev[i].startTime = 0]
    ELSE [s EXCEPT !.dev[i].state = FALSE]

\* Variants of Relay::enterSafeState that the properties of the relay must
\* tell from it.  The first has no guard against a repeated call.
RelayEnterSafeStateUnguarded(s, i) ==
    IF Item(s, i).enter = IGNORE THEN s
    ELSE LET s1 == [s EXCEPT !.dev[i].inSafeState = TRUE,
                             !.dev[i].stateBeforeSafeState = s.dev[i].state]
         IN  CASE Item(s, i).enter = SWITCH_ON -> on(s1, i)
               [] Item(s, i).enter = SWITCH_OFF -> off(s1, i)
               [] OTHER -> s1

\* The second remembers the level after it has forced it.
RelayEnterSafeStateRemembersLate(s, i) ==
    IF s.dev[i].inSafeState THEN s
    ELSE IF Item(s, i).enter = IGNORE THEN s
    ELSE LET s1 == [s EXCEPT !.dev[i].inSafeState = TRUE]
             s2 == CASE Item(s, i).enter = SWITCH_ON -> on(s1, i)
                      [] Item(s, i).enter = SWITCH_OFF -> off(s1, i)
                      [] OTHER -> s1
         IN  [s2 EXCEPT !.dev[i].stateBeforeSafeState = s2.dev[i].state]

\* The third switches a relay with enter policy RESTORE off.
RelayEnterSafeStateRestoreOff(s, i) ==
    IF s.dev[i].inSafeState THEN s
    ELSE IF Item(s, i).enter = IGNORE THEN s
    ELSE LET s1 == [s EXCEPT !.dev[i].inSafeState = TRUE,
                             !.dev[i].stateBeforeSafeState = s.dev[i].state]
         IN  CASE Item(s, i).enter = SWITCH_ON -> on(s1, i)
               [] Item(s, i).enter = SWITCH_OFF -> off(s1, i)
               [] OTHER -> off(s1, i)

\* Relay::enterSafeState
RelayEnterSafeState(s, i) ==
    IF s.dev[i].inSafeState THEN s
    ELSE IF Item(s, i).enter = IGNORE THEN s
    ELSE LET s1 == [s EXCEPT !.dev[i].inSafeState = TRUE,
                             !.dev[i].stateBeforeSafeState = s.dev[i].state]
         IN  CASE Item(s, i).enter = SWITCH_ON -> on(s1, i)
               [] Item(s, i).enter = SWITCH_OFF -> off(s1, i)
               [] OTHER -> s1

\* A variant of Relay::leaveSafeState that takes the leave policies SWITCH_ON
\* and SWITCH_OFF for one another.
RelayLeaveSafeStateSwapped(s, i) ==
    IF ~s.dev[i].inSafeState THEN s
    ELSE LET s1 == [s EXCEPT !.dev[i].inSafeState = FALSE]
         IN  CASE Item(s, i).leave = IGNORE -> s1
               [] Item(s, i).leave = SWITCH_ON -> off(s1, i)
               [] Item(s, i).leave = SWITCH_OFF -> on(s1, i)
               [] Item(s, i).leave = RESTORE ->
                    IF s1.dev[i].stateBeforeSafeState THEN on(s1, i) ELSE off(s1, i)
               [] OTHER -> s1

\* Relay::leaveSafeState
RelayLeaveSafeState(s, i) ==
    IF ~s.dev[i].inSafeState THEN s
    ELSE LET s1 == [s EXCEPT !.dev[i].inSafeState = FALSE]
         IN  CASE Item(s, i).leave = IGNORE -> s1
               [] Item(s, i).leave = SWITCH_ON -> on(s1, i)
               [] Item(s, i).leave = SWITCH_OFF -> off(s1, i)
               [] Item(s, i).leave = RESTORE ->
                    IF s1.dev[i].stateBeforeSafeState THEN on(s1, i) ELSE off(s1, i)
               [] OTHER -> s1

\* Relay::setFromCoil
RelaySetFromCoil(s, i, val) == IF val THEN on(s, i) ELSE off(s, i)

\* SafeRelay::update with the max-on time compared by >= : the relay goes off
\* one millisecond early.
RelayUpdateEarly(s, i) ==
    IF /\ Item(s, i).kind = "SafeRelay"
       /\ s.dev[i].state
       /\ Elapsed(s.now, s.dev[i].startTime) >= s.dev[i].maxOnTime
    THEN off(s, i)
    ELSE s

\* SafeRelay::update with the max-on time left alone in safe state.
RelayUpdateNormalOnly(s, i) ==
    IF /\ Item(s, i).kind = "SafeRelay"
       /\ s.dev[i].state
       /\ ~s.dev[i].inSafeState
       /\ Elapsed(s.now, s.dev[i].startTime) > s.dev[i].maxOnTime
    THEN off(s, i)
    ELSE s

\* SafeRelay::update / StableRelay::update
RelayUpdate(s, i) ==
    IF /\ Item(s, i).kind = "SafeRelay"
       /\ s.dev[i].state
       /\ Elapsed(s.now, s.dev[i].startTime) > s.dev[i].maxOnTime
    THEN off(s, i)
    ELSE s

\* SafeRelay::getHoldingValue; StableRelay inherits IODevice's.
RelayGetHoldingValue(s, i) ==
    IF Item(s, i).kind = "SafeRelay"
    THEN (s.dev[i].maxOnTime \div MsPerSecond) % Uint16Mod
    ELSE INVALID_VALUE

\* SafeRelay::setFromHolding multiplying in 16 bits, the cast left out.
RelaySetFromHoldingNarrow(s, i, val) ==
    IF Item(s, i).kind = "SafeRelay"
    THEN [s EXCEPT !.dev[i].maxOnTime = (val * MsPerSecond) % Uint16Mod]
    ELSE s

\* A variant of setFromHolding in which a StableRelay takes the register's
\* value for a level.
RelaySetFromHoldingSwitches(s, i, val) ==
    IF Item(s, i).kind = "SafeRelay"
    THEN [s EXCEPT !.dev[i].maxOnTime = val * MsPerSecond]
    ELSE IF val # 0 THEN on(s, i) ELSE off(s, i)

\* SafeRelay::setFromHolding; StableRelay inherits IODevice's no-op.  The
\* product is an unsigned long's, of 32 bits.
RelaySetFromHolding(s, i, val) ==
    IF Item(s, i).kind = "SafeRelay"
    THEN [s EXCEPT !.dev[i].maxOnTime = val * MsPerSecond]
    ELSE s

\* ----------------------------------------------------- devices, dispatched
\* IODevice::enterSafeState, overridden by Relay only.
DeviceEnterSafeState(s, i) == IF IsRelay(s, i) THEN RelayEnterSafeState(s, i) ELSE s

\* IODevice::leaveSafeState, overridden by Relay only.
DeviceLeaveSafeState(s, i) == IF IsRelay(s, i) THEN RelayLeaveSafeState(s, i) ELSE s

\* A variant of ModbusItem::enterSafeState that publishes the forced level of
\* a relay in its coil.
ItemEnterSafeStatePublishes(s, i) ==
    LET s1 == DeviceEnterSafeState(s, i)
        s2 == [s1 EXCEPT !.hist[i] = [entered |-> TRUE, pre |-> s.dev[i].state,
                                      written |-> FALSE],
                         !.coils[BaseAddress(s, i)] =
                             IF IsRelay(s, i) THEN s1.dev[i].state ELSE @]
    IN  Emit(s2, Ev("enterSafeState", i, s.dev[i].state, s1.dev[i].state))

\* ModbusItem::enterSafeState.  History: the relay's level before the safe
\* state is kept in hist, the call in the log.
ItemEnterSafeState(s, i) ==
    LET s1 == DeviceEnterSafeState(s, i)
        s2 == [s1 EXCEPT !.hist[i] = [entered |-> TRUE, pre |-> s.dev[i].state,
                                      written |-> FALSE]]
    IN  Emit(s2, Ev("enterSafeState", i, s.dev[i].state, s1.dev[i].state))

\* ModbusItem::exitSafeState.  History: the log entry carries the level after
\* the call (b), the level before the matching enter (a) is in the entry
\* "leaveFrom" that precedes it, and the level the device remembered is in
\* the entry "leaveMemo" before that.
ItemExitSafeState(s, i) ==
    LET s1 == DeviceLeaveSafeState(s, i)
        s0 == Emit(s1, Ev("leaveMemo", i, s.dev[i].stateBeforeSafeState,
                          s.dev[i].inSafeState))
        s2 == Emit(s0, Ev("leaveFrom", i, s.hist[i].pre, s.hist[i].written))
        s3 == Emit(s2, Ev("leaveSafeState", i, s.dev[i].state, s1.dev[i].state))
    IN  [s3 EXCEPT !.hist[i] = NewHist]

RECURSIVE EnterFromButLast(_, _)
\* A variant of the loop of ModbusHandler::enterSafeState that stops one item
\* short.
EnterFromButLast(s, i) ==
    IF i >= NumItems(s) - 1 THEN s ELSE EnterFromButLast(ItemEnterSafeState(s, i), i + 1)

RECURSIVE EnterFrom(_, _)
\* ModbusHandler::enterSafeState: the loop over the items, from index i on.
EnterFrom(s, i) ==
    IF i >= NumItems(s) THEN s ELSE EnterFrom(ItemEnterSafeState(s, i), i + 1)

RECURSIVE ExitFrom(_, _)
\* ModbusHandler::exitSafeState: the loop over the items, from index i on.
ExitFrom(s, i) ==
    IF i >= NumItems(s) THEN s ELSE ExitFrom(ItemExitSafeState(s, i), i + 1)

\* History: what a broadcast of the coordinator has no business with, that is
\* all of the program state but the coordinator's own flag and, of a relay,
\* its output level, the level it remembers, its safe-state flag and its
\* start time.
Frame(s) ==
    [coils |-> s.coils, holding |-> s.holding, discrete |-> s.discrete,
     inputRegs |-> s.inputRegs, lastValue |-> s.lastValue,
     lastValue2 |-> s.lastValue2, serverOk |-> s.serverOk,
     linkWasDown |-> s.linkWasDown, nextCheck |-> s.nextCheck,
     lastUpdate |-> s.lastUpdate, updateInterval |-> s.updateInterval,
     errorCode |-> s.errorCode, wasAlive |-> s.wasAlive, isAlive |-> s.isAlive,
     dev |-> [i \in DOMAIN s.dev |->
                 IF IsRelay(s, i)
                 THEN [s.dev[i] EXCEPT !.state = FALSE, !.stateBeforeSafeState = FALSE,
                                       !.inSafeState = FALSE, !.startTime = 0]
                 ELSE s.dev[i]]]

\* A variant of ModbusHandler::enterSafeState that sets the flag and calls no
\* item.
HandlerEnterSafeStateQuiet(s) ==
    IF s.isSafeState THEN s
    ELSE Emit([s EXCEPT !.isSafeState = TRUE],
              Ev("Handler.enterSafeState", -1, FALSE, TRUE))

\* ModbusHandler::enterSafeState without the early return: it calls the items
\* whenever it is called.
HandlerEnterSafeStateUnguarded(s) ==
    EnterFrom(Emit([s EXCEPT !.isSafeState = TRUE],
                   Ev("Handler.enterSafeState", -1, s.isSafeState, TRUE)), 0)

\* ModbusHandler::enterSafeState.  History: the broadcast is logged when it
\* begins and, with the frame before and after it, when it is done.
HandlerEnterSafeState(s) ==
    IF s.isSafeState THEN s
    ELSE Only({Emit(s1, Ev("Handler.entered", -1, Frame(s), Frame(s1))) :
               s1 \in {EnterFrom(Emit([s EXCEPT !.isSafeState = TRUE],
                                      Ev("Handler.enterSafeState", -1, FALSE, TRUE)), 0)}})

\* ModbusHandler::exitSafeState.  History: as for enterSafeState.
HandlerExitSafeState(s) ==
    IF ~s.isSafeState THEN s
    ELSE Only({Emit(s1, Ev("Handler.exited", -1, Frame(s), Frame(s1))) :
               s1 \in {ExitFrom(Emit([s EXCEPT !.isSafeState = FALSE],
                                     Ev("Handler.exitSafeState", -1, TRUE, FALSE)), 0)}})

\* -------------------------------------------------------------- Heartbeat
\* Heartbeat::update with the deadline compared by >= : the heartbeat dies
\* one millisecond early.
HeartbeatUpdateEarly(s, i) ==
    IF Elapsed(s.now, s.dev[i].lastChange) >= HEARTBEAT_DELAY
    THEN IF s.dev[i].alive
         THEN LET s1 == [s EXCEPT !.dev[i].alive = FALSE]
                  s2 == HandlerEnterSafeState(Emit(s1, Ev("Heartbeat.dead", i, TRUE, FALSE)))
              IN  [Emit(s2, Ev("Heartbeat.setter", i, FALSE, FALSE)) EXCEPT !.isAlive = FALSE]
         ELSE s
    ELSE IF ~s.dev[i].alive
         THEN LET s1 == [s EXCEPT !.dev[i].alive = TRUE]
                  s2 == HandlerExitSafeState(Emit(s1, Ev("Heartbeat.alive", i, FALSE, TRUE)))
              IN  [Emit(s2, Ev("Heartbeat.setter", i, TRUE, TRUE)) EXCEPT !.isAlive = TRUE]
         ELSE s

\* Heartbeat::update calling the handler and the setter by level, in every
\* update, not on the change of _isAlive.
HeartbeatUpdateByLevel(s, i) ==
    IF Elapsed(s.now, s.dev[i].lastChange) > HEARTBEAT_DELAY
    THEN LET s1 == [s EXCEPT !.dev[i].alive = FALSE]
             s2 == HandlerEnterSafeState(Emit(s1, Ev("Heartbeat.dead", i, TRUE, FALSE)))
         IN  [Emit(s2, Ev("Heartbeat.setter", i, FALSE, FALSE)) EXCEPT !.isAlive = FALSE]
    ELSE LET s1 == [s EXCEPT !.dev[i].alive = TRUE]
             s2 == HandlerExitSafeState(Emit(s1, Ev("Heartbeat.alive", i, FALSE, TRUE)))
         IN  [Emit(s2, Ev("Heartbeat.setter", i, TRUE, TRUE)) EXCEPT !.isAlive = TRUE]

\* Heartbeat::update of a heartbeat no handler was attached to: the setter
\* is called, the coordinator is not.
HeartbeatUpdateNoHandler(s, i) ==
    IF Elapsed(s.now, s.dev[i].lastChange) > HEARTBEAT_DELAY
    THEN IF s.dev[i].alive
         THEN [Emit([s EXCEPT !.dev[i].alive = FALSE],
                    Ev("Heartbeat.setter", i, FALSE, FALSE)) EXCEPT !.isAlive = FALSE]
         ELSE s
    ELSE IF ~s.dev[i].alive
         THEN [Emit([s EXCEPT !.dev[i].alive = TRUE],
                    Ev("Heartbeat.setter", i, TRUE, TRUE)) EXCEPT !.isAlive = TRUE]
         ELSE s

\* Heartbeat::update of a heartbeat that stays dead once it has died: only
\* a heartbeat that was never alive comes alive.
HeartbeatUpdateLatched(s, i) ==
    IF Elapsed(s.now, s.dev[i].lastChange) > HEARTBEAT_DELAY
    THEN IF s.dev[i].alive
         THEN LET s1 == [s EXCEPT !.dev[i].alive = FALSE]
                  s2 == HandlerEnterSafeState(Emit(s1, Ev("Heartbeat.dead", i, TRUE, FALSE)))
              IN  [Emit(s2, Ev("Heartbeat.setter", i, FALSE, FALSE)) EXCEPT !.isAlive = FALSE]
         ELSE s
    ELSE IF ~s.dev[i].alive /\ s.isAlive
         THEN LET s1 == [s EXCEPT !.dev[i].alive = TRUE]
                  s2 == HandlerExitSafeState(Emit(s1, Ev("Heartbeat.alive", i, FALSE, TRUE)))
              IN  [Emit(s2, Ev("Heartbeat.setter", i, TRUE, TRUE)) EXCEPT !.isAlive = TRUE]
         ELSE s

\* Heartbeat::update, with the handler attached (setup) and the sketch's
\* setter, which stores the new state in the global isAlive.
\* History: "Heartbeat.dead" marks the call of _handler->enterSafeState(),
\* "Heartbeat.alive" the call of _handler->exitSafeState(), and
\* "Heartbeat.setter" the call of _setter with the new state (a).
HeartbeatUpdate(s, i) ==
    IF Elapsed(s.now, s.dev[i].lastChange) > HEARTBEAT_DELAY
    THEN IF s.dev[i].alive
         THEN LET s1 == [s EXCEPT !.dev[i].alive = FALSE]
                  s2 == HandlerEnterSafeState(Emit(s1, Ev("Heartbeat.dead", i, TRUE, FALSE)))
              IN  [Emit(s2, Ev("Heartbeat.setter", i, FALSE, FALSE)) EXCEPT !.isAlive = FALSE]
         ELSE s
    ELSE IF ~s.dev[i].alive
         THEN LET s1 == [s EXCEPT !.dev[i].alive = TRUE]
                  s2 == HandlerExitSafeState(Emit(s1, Ev("Heartbeat.alive", i, FALSE, TRUE)))
              IN  [Emit(s2, Ev("Heartbeat.setter", i, TRUE, TRUE)) EXCEPT !.isAlive = TRUE]
         ELSE s

\* Heartbeat::setFromHolding keeping the old timestamp.
HeartbeatSetFromHoldingStale(s, i, val) ==
    [s EXCEPT !.dev[i].val = val]

\* Heartbeat::setFromHolding
HeartbeatSetFromHolding(s, i, val) ==
    [s EXCEPT !.dev[i].val = val, !.dev[i].lastChange = s.now]

\* --------------------------------------------------------------- Variable
\* Variable<T>::getHoldingValue with the sketch's getters: updateFreq reads
\* updateInterval, errorCodeVar reads errorCode; narrowed to 16 bits.
VariableGetHoldingValue(s, i) ==
    IF Item(s, i).name = "updateFreq" THEN s.updateInterval % Uint16Mod
    ELSE s.errorCode % Uint16Mod

\* Variable<T>::setFromHolding with a setter for errorCodeVar as well.
VariableSetFromHoldingWritable(s, i, val) ==
    IF Item(s, i).name = "updateFreq" THEN [s EXCEPT !.updateInterval = val]
    ELSE [s EXCEPT !.errorCode = val]

\* Variable<T>::setFromHolding: updateFreq has a setter, errorCodeVar none.
VariableSetFromHolding(s, i, val) ==
    IF Item(s, i).name = "updateFreq" THEN [s EXCEPT !.updateInterval = val]
    ELSE s

\* ------------------------------------------------- the IODevice interface
\* IODevice::update as overridden: in.pins[i] is what the pin reads.
DeviceUpdate(s, i, in) ==
    CASE IsRelay(s, i) -> RelayUpdate(s, i)
      [] Item(s, i).kind = "Heartbeat" -> HeartbeatUpdate(s, i)
      [] Item(s, i).kind = "DiscreteInput" -> [s EXCEPT !.dev[i].state = IntToBool(in.pins[i])]
      [] Item(s, i).kind = "AnalogInput" -> [s EXCEPT !.dev[i].val = in.pins[i] % Uint16Mod]
      [] OTHER -> s

DeviceGetCoilValue(s, i) == IF IsRelay(s, i) THEN s.dev[i].state ELSE FALSE

DeviceSetFromCoil(s, i, val) == IF IsRelay(s, i) THEN RelaySetFromCoil(s, i, val) ELSE s

DeviceGetHoldingValue(s, i) ==
    CASE IsRelay(s, i) -> RelayGetHoldingValue(s, i)
      [] Item(s, i).kind = "Heartbeat" -> s.dev[i].val
      [] Item(s, i).kind = "Variable" -> VariableGetHoldingValue(s, i)
      [] OTHER -> INVALID_VALUE

DeviceSetFromHolding(s, i, val) ==
    CASE IsRelay(s, i) -> RelaySetFromHolding(s, i, val)
      [] Item(s, i).kind = "Heartbeat" -> HeartbeatSetFromHolding(s, i, val)
      [] Item(s, i).kind = "Variable" -> VariableSetFromHolding(s, i, val)
      [] OTHER -> s

DeviceGetDiscreteValue(s, i) ==
    IF Item(s, i).kind = "DiscreteInput" THEN s.dev[i].state ELSE FALSE

DeviceGetInputValue(s, i) ==
    IF Item(s, i).kind = "AnalogInput" THEN s.dev[i].val ELSE INVALID_VALUE

\* ------------------------------------------------------------- ModbusItem
\* ModbusItem::updateDevice.  History: the entry "Device.updated" carries the
\* device's fields (a) and whether the coordinator is in safe state (b) when
\* the device's update() returns.
UpdateDevice(s, i, in) ==
    Only({Emit(s1, Ev("Device.updated", i, s1.dev[i], s1.isSafeState)) :
          s1 \in {DeviceUpdate(Emit(s, Ev("update", i, FALSE, FALSE)), i, in)}})

\* The register map's reads.  History only: each is logged with its address
\* (i) and the value read.
CoilRead(s, a) == Emit(s, Ev("coilRead", a, s.coils[a], s.coils[a]))
HoldingRegisterRead(s, a) == Emit(s, Ev("holdingRegisterRead", a, s.holding[a], s.holding[a]))

\* The device's write accessors as ModbusItem calls them.  History: a coil
\* write between enterSafeState and leaveSafeState is remembered in hist.
CallSetFromCoil(s, i, val) ==
    LET s1 == [s EXCEPT !.hist[i].written = @ \/ s.hist[i].entered]
    IN  DeviceSetFromCoil(Emit(s1, Ev("setFromCoil", i, val, val)), i, val)

CallSetFromHolding(s, i, val) ==
    DeviceSetFromHolding(Emit(s, Ev("setFromHolding", i, val, val)), i, val)

\* A variant of ModbusItem::updateFromModbus that hands every value it reads
\* to the device, changed or not.
UpdateFromModbusUnsuppressed(s, i) ==
    CASE GetType(s, i) = "Coil" ->
            LET val == s.coils[BaseAddress(s, i)]
                s1 == [CallSetFromCoil(CoilRead(s, BaseAddress(s, i)), i, val)
                          EXCEPT !.lastValue[i] = BoolToInt(val)]
                val2 == s1.holding[BaseAddress(s, i)]
            IN  [CallSetFromHolding(HoldingRegisterRead(s1, BaseAddress(s, i)), i, val2)
                    EXCEPT !.lastValue2[i] = val2]
      [] GetType(s, i) = "HoldingRegister" ->
            LET val == s.holding[BaseAddress(s, i)]
            IN  [CallSetFromHolding(HoldingRegisterRead(s, BaseAddress(s, i)), i, val)
                    EXCEPT !.lastValue[i] = val]
      [] OTHER -> s

\* ModbusItem::updateFromModbus
UpdateFromModbus(s, i) ==
    CASE GetType(s, i) = "Coil" ->
            LET val == s.coils[BaseAddress(s, i)]
                s1 == IF val # IntToBool(s.lastValue[i])
                      THEN [CallSetFromCoil(CoilRead(s, BaseAddress(s, i)), i, val)
                               EXCEPT !.lastValue[i] = BoolToInt(val)]
                      ELSE CoilRead(s, BaseAddress(s, i))
                val2 == s1.holding[BaseAddress(s, i)]
            IN  IF val2 # s1.lastValue2[i]
                THEN [CallSetFromHolding(HoldingRegisterRead(s1, BaseAddress(s, i)), i, val2)
                         EXCEPT !.lastValue2[i] = val2]
                ELSE HoldingRegisterRead(s1, BaseAddress(s, i))
      [] GetType(s, i) = "HoldingRegister" ->
            LET val == s.holding[BaseAddress(s, i)]
            IN  IF val # s.lastValue[i]
                THEN [CallSetFromHolding(HoldingRegisterRead(s, BaseAddress(s, i)), i, val)
                         EXCEPT !.lastValue[i] = val]
                ELSE HoldingRegisterRead(s, BaseAddress(s, i))
      [] OTHER -> s

\* The register map's writes.  History: each is logged with its address (i).
CoilWrite(s, a, v) == Emit([s EXCEPT !.coils[a] = v], Ev("coilWrite", a, v, v))
HoldingRegisterWrite(s, a, v) ==
    Emit([s EXCEPT !.holding[a] = v], Ev("holdingRegisterWrite", a, v, v))
DiscreteInputWrite(s, a, v) ==
    Emit([s EXCEPT !.discrete[a] = v], Ev("discreteInputWrite", a, v, v))
InputRegisterWrite(s, a, v) ==
    Emit([s EXCEPT !.inputRegs[a] = v], Ev("inputRegisterWrite", a, v, v))

\* ModbusItem::updateToModbus writing an input's register in every cycle,
\* changed or not.
UpdateToModbusAlways(s, i) ==
    CASE GetType(s, i) = "DiscreteInput" ->
            LET state == DeviceGetDiscreteValue(s, i)
            IN  [DiscreteInputWrite(s, BaseAddress(s, i), state) EXCEPT !.lastValue[i] = BoolToInt(state)]
      [] GetType(s, i) = "InputRegister" ->
            LET state == DeviceGetInputValue(s, i)
            IN  [InputRegisterWrite(s, BaseAddress(s, i), state) EXCEPT !.lastValue[i] = state]
      [] OTHER -> s

\* ModbusItem::updateToModbus
UpdateToModbus(s, i) ==
    CASE GetType(s, i) = "Coil" ->
            LET state == DeviceGetCoilValue(s, i)
                s1 == IF state # IntToBool(s.lastValue[i])
                      THEN [CoilWrite(s, BaseAddress(s, i), state) EXCEPT !.lastValue[i] = BoolToInt(state)]
                      ELSE s
                tmp == DeviceGetHoldingValue(s1, i)
            IN  IF tmp # s1.lastValue2[i]
                THEN HoldingRegisterWrite([s1 EXCEPT !.lastValue2[i] = tmp], BaseAddress(s, i), tmp)
                ELSE s1
      [] GetType(s, i) = "DiscreteInput" ->
            LET state == DeviceGetDiscreteValue(s, i)
            IN  IF state # IntToBool(s.lastValue[i])
                THEN [DiscreteInputWrite(s, BaseAddress(s, i), state) EXCEPT !.lastValue[i] = BoolToInt(state)]
                ELSE s
      [] GetType(s, i) = "HoldingRegister" ->
            LET state == DeviceGetHoldingValue(s, i)
            IN  IF state # s.lastValue[i]
                THEN [HoldingRegisterWrite(s, BaseAddress(s, i), state) EXCEPT !.lastValue[i] = state]
                ELSE s
      [] GetType(s, i) = "InputRegister" ->
            LET state == DeviceGetInputValue(s, i)
            IN  IF state # s.lastValue[i]
                THEN [InputRegisterWrite(s, BaseAddress(s, i), state) EXCEPT !.lastValue[i] = state]
                ELSE s
      [] OTHER -> s

\* History only: what item i's cache, registers and device read as.
ItemView(s, i) ==
    [lastValue |-> s.lastValue[i], lastValue2 |-> s.lastValue2[i],
     coil |-> s.coils[BaseAddress(s, i)], holding |-> s.holding[BaseAddress(s, i)],
     discrete |-> s.discrete[BaseAddress(s, i)], input |-> s.inputRegs[BaseAddress(s, i)],
     getCoil |-> DeviceGetCoilValue(s, i), getHolding |-> DeviceGetHoldingValue(s, i),
     getDiscrete |-> DeviceGetDiscreteValue(s, i), getInput |-> DeviceGetInputValue(s, i)]

\* ModbusItem::update with the push before the pull.
ItemUpdatePushFirst(s, i, in) ==
    Only({Emit(s3, Ev("Item.updated", i, ItemView(s3, i), s3.errorCode)) :
          s3 \in {UpdateFromModbus(
                     Emit(UpdateToModbus(
                            Emit(UpdateDevice(s, i, in), Ev("updateToModbus", i, i, i)),
                            i),
                          Ev("updateFromModbus", i, i, i)),
                     i)}})

\* ModbusItem::update.  History: "updateFromModbus" and "updateToModbus" mark
\* the two calls, after the "update" of updateDevice; "Item.updated" carries
\* the item's view when update() returns (a) and errorCode then (b).
ItemUpdate(s, i, in) ==
    Only({Emit(s3, Ev("Item.updated", i, ItemView(s3, i), s3.errorCode)) :
          s3 \in {UpdateToModbus(
                     Emit(UpdateFromModbus(
                            Emit(UpdateDevice(s, i, in), Ev("updateFromModbus", i, i, i)),
                            i),
                          Ev("updateToModbus", i, i, i)),
                     i)}})

\* ---------------------------------------------------------- ModbusHandler
RECURSIVE UpdateItemsFrom(_, _, _)
\* ModbusHandler::updateItems: the loop, from index i on.
UpdateItemsFrom(s, i, in) ==
    IF i >= NumItems(s) THEN s ELSE UpdateItemsFrom(ItemUpdate(s, i, in), i + 1, in)

\* ModbusHandler::updateItems
UpdateItems(s, in) == UpdateItemsFrom(s, 0, in)

\* ModbusHandler::startModbusServer; ok is what _server.begin() returns.  The
\* register map is taken to work as a store whether or not begin() succeeded.
StartModbusServer(s, ok) ==
    IF ~ok THEN [s EXCEPT !.serverOk = FALSE]
    ELSE [s EXCEPT !.serverOk = TRUE,
                   !.coils = [i \in Indices(s) |-> FALSE],
                   !.holding = [i \in Indices(s) |-> 0],
                   !.inputRegs = [i \in Indices(s) |-> 0],
                   !.discrete = [i \in Indices(s) |-> FALSE]]

\* ModbusHandler::checkEthernet.  in.link is Ethernet.linkStatus(), in.maintain
\* Ethernet.maintain(), in.dhcp whether Ethernet.begin(_mac) gets a lease,
\* in.srv what _server.begin() returns.
CheckEthernet(s, in) ==
    IF s.now < s.nextCheck THEN s
    ELSE LET s1 == Emit([s EXCEPT !.nextCheck = (s.now + EthCheckInterval) % ClockMod,
                                  !.lastLink = in.link],
                        Ev("checkEthernet", -1, in.link = "LinkOFF", in.link = "LinkOFF"))
         IN  IF in.link = "LinkOFF"
             THEN HandlerEnterSafeState([s1 EXCEPT !.linkWasDown = TRUE])
             ELSE IF in.maintain # 3
                  THEN IF s1.linkWasDown
                       THEN [HandlerExitSafeState(s1) EXCEPT !.linkWasDown = FALSE]
                       ELSE s1
                  ELSE IF ~in.dhcp THEN s1
                       ELSE IF s1.linkWasDown
                            THEN HandlerExitSafeState(
                                    [StartModbusServer(s1, in.srv) EXCEPT !.linkWasDown = FALSE])
                            ELSE s1

\* No client request.
NoRequest == [op |-> "none", addr |-> 0, val |-> 0]

\* _server.poll(): at most one client request is served; in.req is the request,
\* a write of one coil or one holding register, or "none".
Poll(s, in) ==
    IF in.req.op = "none" \/ ~s.serverOk THEN s
    ELSE IF in.req.op = "coil"
         THEN [s EXCEPT !.coils[in.req.addr] = IntToBool(in.req.val)]
         ELSE [s EXCEPT !.holding[in.req.addr] = in.req.val]

\* The register map, all four spaces.
RegisterMap(s) == <<s.coils, s.holding, s.discrete, s.inputRegs>>

\* ModbusHandler::update
\* History: the log entry carries the link's status during this cycle (a),
\* polled or not, and the safe-state flag at the cycle's start (b).  The
\* entries "Handler.began", "Handler.checked" and "Handler.polled" carry the
\* register map (a) when update() begins, after checkEthernet() and after
\* _server.poll(); the last also carries the request that was served (b).
Update(s, in) ==
    Only({UpdateItems(s5, in) :
          s5 \in {Emit(p[2], Ev("Handler.polled", -1, RegisterMap(p[2]),
                               IF p[1].serverOk THEN in.req ELSE NoRequest)) :
          p  \in {<<s3, Poll(s3, in)>> :
          s3 \in {Emit(s2, Ev("Handler.checked", -1, RegisterMap(s2), s2.isSafeState)) :
          s2 \in {CheckEthernet(s1, in) :
          s1 \in {Emit(s0, Ev("Handler.began", -1, RegisterMap(s0), s0.isSafeState)) :
          s0 \in {Emit(s, Ev("Handler.update", -1, in.link = "LinkOFF",
                             s.isSafeState))}}}}}}})

\* ----------------------------------------------------------------- sketch
\* setup(): in.expansion tells whether the digital expansion was found,
\* in.dhcp whether Ethernet.begin(_mac) gets a lease, in.link the link (or
\* hardware) status seen when it does not, in.srv what _server.begin() returns.
\* setupItems() gives item i the base address i; Relay::setup writes LOW to a
\* pin that is LOW already.  hb.attachHandler makes HeartbeatUpdate call the
\* handler.
SketchSetup(s, in) ==
    LET s1 == IF ~in.expansion
              THEN [s EXCEPT !.errorCode = SetBit(@, ERR_EXPANSION)] ELSE s
        \* ModbusHandler::begin
        s2 == [s1 EXCEPT !.linkWasDown = ~in.dhcp /\ in.link = "LinkOFF"]
        s3 == StartModbusServer(s2, in.srv)
    IN  IF ~in.srv THEN [s3 EXCEPT !.errorCode = SetBit(@, ERR_MODBUS)] ELSE s3

\* loop() running the cycle only after more than updateInterval.
SketchLoopGateStrict(s, in) ==
    LET s1 == IF ~in.expansion
              THEN [s EXCEPT !.errorCode = SetBit(@, ERR_EXPANSION)] ELSE s
        s2 == IF Elapsed(s1.now, s1.lastUpdate) > s1.updateInterval
              THEN Update([s1 EXCEPT !.lastUpdate = s1.now], in)
              ELSE s1
        s3 == IF s2.wasAlive /\ ~s2.isAlive
              THEN [s2 EXCEPT !.errorCode = SetBit(@, ERR_HEARTBEAT)] ELSE s2
        s4 == IF ~s3.wasAlive /\ s3.isAlive
              THEN [s3 EXCEPT !.errorCode = ClearBit(@, ERR_HEARTBEAT)] ELSE s3
    IN  Emit([s4 EXCEPT !.wasAlive = s4.isAlive], Ev("loop", -1, in.expansion, s.errorCode))

\* loop(): one iteration.  in.expansion is the level of the expansion's
\* detect pin (TRUE = HIGH).  History: the entry "loop" at the iteration's end
\* carries that level (a) and errorCode as the iteration found it (b).
SketchLoop(s, in) ==
    LET s1 == IF ~in.expansion
              THEN [s EXCEPT !.errorCode = SetBit(@, ERR_EXPANSION)] ELSE s
        s2 == IF Elapsed(s1.now, s1.lastUpdate) >= s1.updateInterval
              THEN Update([s1 EXCEPT !.lastUpdate = s1.now], in)
              ELSE s1
        s3 == IF s2.wasAlive /\ ~s2.isAlive
              THEN [s2 EXCEPT !.errorCode = SetBit(@, ERR_HEARTBEAT)] ELSE s2
        s4 == IF ~s3.wasAlive /\ s3.isAlive
              THEN [s3 EXCEPT !.errorCode = ClearBit(@, ERR_HEARTBEAT)] ELSE s3
    IN  Emit([s4 EXCEPT !.wasAlive = s4.isAlive], Ev("loop", -1, in.expansion, s.errorCode))


\* ----------------------------------------------------------------- inputs
\* The write requests a client sends in this run: to the coils env.coils and
\* to the holding registers env.holding.
Requests(s) ==
    {NoRequest}
    \cup {[op |-> "coil", addr |-> i, val |-> v] : i \in s.env.coils, v \in {0, 1}}
    \cup UNION {{[op |-> "holding", addr |-> i, val |-> v] :
                     v \in IF s.items[i + 1].name = "updateFreq"
                           THEN IntervalVals ELSE ClientVals} :
                 i \in s.env.holding}

\* What the Ethernet library answers in loop().  Only the answers the code
\* reads are varied: maintain() is not called with the link off, begin() only
\* after maintain() returned 3, _server.begin() only after a lease.
EthernetAnswers ==
    {[link |-> "LinkOFF", maintain |-> 0, dhcp |-> FALSE, srv |-> FALSE]}
    \cup {[link |-> "LinkON", maintain |-> m, dhcp |-> FALSE, srv |-> FALSE] :
             m \in MaintainResults}
    \cup {[link |-> "LinkON", maintain |-> 3, dhcp |-> TRUE, srv |-> b] : b \in BOOLEAN}

\* The answers of a network whose link goes down and comes back with the
\* lease still valid.
LinkAnswers == {a \in EthernetAnswers : a.maintain = 0}

\* The answers of a network whose link goes down and comes back with a new
\* lease, the Modbus server starting again.
RestartAnswers ==
    {a \in EthernetAnswers : a.maintain = 0 \/ (a.maintain = 3 /\ a.dhcp /\ a.srv)}

\* What setup() sees.
SetupAnswers ==
    {[link |-> l, maintain |-> 0, dhcp |-> d, srv |-> b] :
        l \in LinkStatus, d \in BOOLEAN, b \in BOOLEAN}

\* setup() on a network that is up, with the Modbus server starting.
GoodSetupAnswers == {a \in SetupAnswers : a.link = "LinkON" /\ a.dhcp /\ a.srv}

\* setup() on a network that is up, the Modbus server starting or not.
LinkedSetupAnswers == {a \in SetupAnswers : a.link = "LinkON" /\ a.dhcp}

\* Pin levels, what digitalRead or analogRead returns in one loop(): 0 or 1 on
\* the pin of an input; none of the other pins is read.
PinSamples(s) ==
    {p \in [Indices(s) -> {0, 1}] :
        \A i \in Indices(s) :
            Item(s, i).kind \notin {"DiscreteInput", "AnalogInput"} => p[i] = 0}

Inputs(eth, req, pins, expansion) ==
    [link |-> eth.link, maintain |-> eth.maintain, dhcp |-> eth.dhcp, srv |-> eth.srv,
     req |-> req, pins |-> pins, expansion |-> expansion]

\* ------------------------------------------------------------------ state
Relay(kind, enter, leave) == [kind |-> kind, enter |-> enter, leave |-> leave, name |-> "relay"]
Heartbeat == [kind |-> "Heartbeat", enter |-> IGNORE, leave |-> IGNORE, name |-> "hb"]
DiscreteInput == [kind |-> "DiscreteInput", enter |-> IGNORE, leave |-> IGNORE, name |-> "doorSensor"]
AnalogInput == [kind |-> "AnalogInput", enter |-> IGNORE, leave |-> IGNORE, name |-> "analog"]
ErrorCodeVar == [kind |-> "Variable", enter |-> IGNORE, leave |-> IGNORE, name |-> "errorCodeVar"]
UpdateFreq == [kind |-> "Variable", enter |-> IGNORE, leave |-> IGNORE, name |-> "updateFreq"]

\* The state after the global constructors, before setup().
Constructed ==
    /\ now = 0
    /\ ticks = 0
    /\ dev = [i \in 0 .. (Len(items) - 1) |-> NewDevice]
    /\ lastValue = [i \in 0 .. (Len(items) - 1) |-> 0]
    /\ lastValue2 = [i \in 0 .. (Len(items) - 1) |-> 0]
    /\ coils = [i \in 0 .. (Len(items) - 1) |-> FALSE]
    /\ holding = [i \in 0 .. (Len(items) - 1) |-> 0]
    /\ discrete = [i \in 0 .. (Len(items) - 1) |-> FALSE]
    /\ inputRegs = [i \in 0 .. (Len(items) - 1) |-> 0]
    /\ serverOk = FALSE
    /\ linkWasDown = FALSE
    /\ isSafeState = FALSE
    /\ nextCheck = 0
    /\ lastUpdate = 0
    /\ updateInterval = InitialUpdateInterval
    /\ errorCode = 0
    /\ wasAlive = TRUE
    /\ isAlive = TRUE
    /\ hist = [i \in 0 .. (Len(items) - 1) |-> NewHist]
    /\ lastLink = "none"
    /\ log = <<>>

\* The calls of the coordinator and of the safe-state broadcast.
SafeStateCalls ==
    {"setup", "Handler.update", "checkEthernet", "Heartbeat.dead", "Heartbeat.alive",
     "Handler.enterSafeState", "Handler.exitSafeState", "enterSafeState",
     "leaveMemo", "leaveFrom", "leaveSafeState"}

\* Safe-state coordination.  The items are of the sketch's kinds, a watering
\* valve, the heartbeat and the heat pump, with the heartbeat between the two
\* relays, so that its broadcast comes in the middle of updateItems (the
\* sketch lists its heartbeat last).
\* Clients write the valve's coil and the heartbeat's register; the network
\* does all it can.
Init ==
    /\ pc = "boot"
    /\ items = <<Relay("SafeRelay", SWITCH_OFF, IGNORE), Heartbeat,
                 Relay("StableRelay", SWITCH_ON, RESTORE)>>
    /\ env = [coils |-> {0}, holding |-> {1}, expansion |-> {TRUE},
              setup |-> SetupAnswers, eth |-> EthernetAnswers, trace |-> SafeStateCalls]
    /\ Constructed

\* Safe-state policies: one relay of either kind with every pair of enter and
\* leave policy, and the heartbeat.  Clients write the relay's coil and the
\* heartbeat's register; the link goes down and comes back.
InitPolicy ==
    /\ pc = "boot"
    /\ items \in {<<Relay(k, e, l), Heartbeat>> :
                    k \in RelayKinds, e \in SafeAction, l \in SafeAction}
    /\ env = [coils |-> {0}, holding |-> {1}, expansion |-> {TRUE},
              setup |-> GoodSetupAnswers, eth |-> LinkAnswers,
              trace |-> {"Handler.update", "enterSafeState", "leaveMemo", "leaveFrom", "leaveSafeState"}]
    /\ Constructed

\* ---------------------------------------------------------------- actions
\* The steps the clock takes from one instant to the next.
TickSteps == {TickMs, LongTickMs}

\* setup()
Setup ==
    /\ pc = "boot"
    /\ pc' = "loop"
    /\ \E eth \in env.setup, expansion \in env.expansion :
          Becomes(SketchSetup(Emit(State, Ev("setup", -1, eth.srv, eth.srv)),
                              Inputs(eth, NoRequest, CHOOSE p \in PinSamples(State) : TRUE,
                                     expansion)))
    /\ UNCHANGED ticks

\* loop(), one iteration
Loop ==
    /\ pc = "loop"
    /\ pc' = "looped"
    /\ \E eth \in env.eth, req \in Requests(State),
          pins \in PinSamples(State), expansion \in env.expansion :
          Becomes(SketchLoop([State EXCEPT !.log = <<>>],
                             Inputs(eth, req, pins, expansion)))
    /\ UNCHANGED ticks

\* The clock steps, after loop() has run.
Tick ==
    /\ pc = "looped"
    /\ ticks < MaxTicks
    /\ pc' = "loop"
    /\ ticks' = ticks + 1
    /\ \E step \in TickSteps : now' = (now + step) % ClockMod
    /\ log' = <<>>
    /\ UNCHANGED <<items, env, dev, lastValue, lastValue2, coils, holding, discrete,
                   inputRegs, serverOk, linkWasDown, isSafeState, nextCheck,
                   lastUpdate, updateInterval, errorCode, wasAlive, isAlive, hist,
                   lastLink>>

Next == Setup \/ Loop \/ Tick

Spec == Init /\ [][Next]_vars

SpecPolicy == InitPolicy /\ [][Next]_vars

\* Register synchronisation: a watering valve and the heartbeat.  Clients
\* write the valve's coil and the heartbeat's register; the network does all
\* it can, the restart of the Modbus server after a lost lease included.
SyncCalls ==
    {"Handler.update", "Handler.began", "Handler.checked", "Handler.polled",
     "setFromCoil", "setFromHolding"}

InitSync ==
    /\ pc = "boot"
    /\ items = <<Relay("SafeRelay", SWITCH_OFF, IGNORE), Heartbeat>>
    /\ env = [coils |-> {0}, holding |-> {1}, expansion |-> {TRUE},
              setup |-> GoodSetupAnswers, eth |-> EthernetAnswers, trace |-> SyncCalls]
    /\ Constructed

SpecSync == InitSync /\ [][Next]_vars

\* The two timeouts in the running program, the max-on time and the
\* heartbeat's deadline: a SafeRelay that safe state switches on and that
\* leaving restores, and the heartbeat.  A client writes the relay's coil and
\* the heartbeat's register.
TimeoutCalls ==
    SyncCalls \cup {"enterSafeState", "leaveSafeState", "Handler.exitSafeState",
                    "Heartbeat.dead", "Heartbeat.alive", "Heartbeat.setter"}

InitTimeouts ==
    /\ pc = "boot"
    /\ items = <<Relay("SafeRelay", SWITCH_ON, RESTORE), Heartbeat>>
    /\ env = [coils |-> {0}, holding |-> {1}, expansion |-> {TRUE},
              setup |-> GoodSetupAnswers, eth |-> EthernetAnswers, trace |-> TimeoutCalls]
    /\ Constructed

SpecTimeouts == InitTimeouts /\ [][Next]_vars

\* The bindings of every kind in the running program: a relay, a digital and
\* an analog input and the read-only fault word.  The pins of the inputs read
\* 0 or 1, the Modbus server may fail to start in setup(), the link goes down
\* and comes back with the server starting again, and a client writes the
\* relay's coil and the fault word's register.
BindingCalls ==
    SyncCalls \cup {"update", "updateFromModbus", "updateToModbus", "Item.updated",
                    "coilRead", "holdingRegisterRead",
                    "coilWrite", "holdingRegisterWrite", "discreteInputWrite",
                    "inputRegisterWrite"}

InitBindings ==
    /\ pc = "boot"
    /\ items = <<Relay("StableRelay", SWITCH_OFF, RESTORE), DiscreteInput, AnalogInput,
                 ErrorCodeVar>>
    /\ env = [coils |-> {0}, holding |-> {3}, expansion |-> {TRUE},
              setup |-> LinkedSetupAnswers, eth |-> RestartAnswers, trace |-> BindingCalls]
    /\ Constructed

SpecBindings == InitBindings /\ [][Next]_vars

\* The bindings' register addresses: the same items on a network whose link
\* goes down and comes back with the lease still valid, the server running
\* from setup() on.
InitAddresses ==
    /\ pc = "boot"
    /\ items = <<Relay("StableRelay", SWITCH_OFF, RESTORE), DiscreteInput, AnalogInput,
                 ErrorCodeVar>>
    /\ env = [coils |-> {0}, holding |-> {3}, expansion |-> {TRUE},
              setup |-> GoodSetupAnswers, eth |-> LinkAnswers, trace |-> BindingCalls]
    /\ Constructed

SpecAddresses == InitAddresses /\ [][Next]_vars

\* Safe state and the coil registers: a valve that safe state closes and
\* leaving restores, the heartbeat, and a pump that safe state switches on
\* and leaving restores.  A client writes the valve's coil and the
\* heartbeat's register; the network does all it can.
StaleCalls ==
    {"Handler.update", "Handler.polled", "update", "Item.updated", "setFromCoil",
     "coilWrite", "enterSafeState", "leaveSafeState"}

InitStale ==
    /\ pc = "boot"
    /\ items = <<Relay("StableRelay", SWITCH_OFF, RESTORE), Heartbeat,
                 Relay("StableRelay", SWITCH_ON, RESTORE)>>
    /\ env = [coils |-> {0}, holding |-> {1}, expansion |-> {TRUE},
              setup |-> GoodSetupAnswers, eth |-> EthernetAnswers, trace |-> StaleCalls]
    /\ Constructed

SpecStale == InitStale /\ [][Next]_vars

\* The max-on time in the running program: one SafeRelay that safe state
\* switches on and leaving restores.  A client writes its coil and, to its
\* holding register, a max-on time of 0 s or 1 s; the link goes down and
\* comes back.
OnTimeCalls == {"Handler.update", "on", "Device.updated", "setFromHolding"}

InitOnTime ==
    /\ pc = "boot"
    /\ items = <<Relay("SafeRelay", SWITCH_ON, RESTORE)>>
    /\ env = [coils |-> {0}, holding |-> {0}, expansion |-> {TRUE},
              setup |-> GoodSetupAnswers, eth |-> LinkAnswers, trace |-> OnTimeCalls]
    /\ Constructed

SpecOnTime == InitOnTime /\ [][Next]_vars

\* The gate of the cycle: a relay, a digital input and updateFreq, whose
\* register a client writes to set updateInterval; the link stays up.
LinkUpAnswers == {a \in EthernetAnswers : a.link = "LinkON" /\ a.maintain = 0}

InitGating ==
    /\ pc = "boot"
    /\ items = <<Relay("StableRelay", SWITCH_OFF, RESTORE), DiscreteInput, UpdateFreq>>
    /\ env = [coils |-> {0}, holding |-> {2}, expansion |-> BOOLEAN,
              setup |-> GoodSetupAnswers, eth |-> LinkUpAnswers,
              trace |-> {"Handler.update"}]
    /\ Constructed

SpecGating == InitGating /\ [][Next]_vars

\* The heartbeat across the wrap of millis(): a valve that safe state closes
\* and the heartbeat, whose register no client writes; a client writes the
\* valve's coil, the link stays up.  Besides its short and long steps the
\* clock makes a far step, which takes it from the heartbeat's death to the
\* wrap of millis().
FarTickMs == ClockMod - 2 * LongTickMs

InitWrap ==
    /\ pc = "boot"
    /\ items = <<Relay("StableRelay", SWITCH_OFF, RESTORE), Heartbeat>>
    /\ env = [coils |-> {0}, holding |-> {}, expansion |-> {TRUE},
              setup |-> GoodSetupAnswers, eth |-> LinkUpAnswers,
              trace |-> {"Handler.update", "Heartbeat.dead", "Heartbeat.alive"}]
    /\ Constructed

\* The clock steps far, after loop() has run; the iterations of loop() in
\* between are left out.
FarTick ==
    /\ pc = "looped"
    /\ ticks < MaxTicks
    /\ pc' = "loop"
    /\ ticks' = ticks + 1
    /\ now' = (now + FarTickMs) % ClockMod
    /\ log' = <<>>
    /\ UNCHANGED <<items, env, dev, lastValue, lastValue2, coils, holding, discrete,
                   inputRegs, serverOk, linkWasDown, isSafeState, nextCheck,
                   lastUpdate, updateInterval, errorCode, wasAlive, isAlive, hist,
                   lastLink>>

NextWrap == Setup \/ Loop \/ Tick \/ FarTick

SpecWrap == InitWrap /\ [][NextWrap]_vars

\* The frame of the safe-state broadcast: a SafeRelay that safe state switches
\* on and that leaving restores, the heartbeat, a digital input and the fault
\* word.  A client writes the relay's max-on time and the heartbeat's
\* register; the link goes down and comes back.
FrameCalls == {"Handler.update", "Handler.entered", "Handler.exited"}

InitFrame ==
    /\ pc = "boot"
    /\ items = <<Relay("SafeRelay", SWITCH_ON, RESTORE), Heartbeat, DiscreteInput,
                 ErrorCodeVar>>
    /\ env = [coils |-> {}, holding |-> {0, 1}, expansion |-> {TRUE},
              setup |-> GoodSetupAnswers, eth |-> LinkAnswers, trace |-> FrameCalls]
    /\ Constructed

SpecFrame == InitFrame /\ [][Next]_vars

\* The holding register of a relay without a holding parameter: a StableRelay
\* that safe state switches on and that leaving restores, and the heartbeat.
\* A client writes the relay's coil and the relay's holding register; the
\* link goes down and comes back, with the lease still valid or with a new
\* one, and setup() may fail to start the Modbus server.
SentinelCalls ==
    {"Handler.update", "Handler.polled", "Device.updated", "setFromCoil",
     "setFromHolding", "holdingRegisterWrite", "Item.updated"}

InitSentinel ==
    /\ pc = "boot"
    /\ items = <<Relay("StableRelay", SWITCH_ON, RESTORE), Heartbeat>>
    /\ env = [coils |-> {0}, holding |-> {0}, expansion |-> {TRUE},
              setup |-> LinkedSetupAnswers, eth |-> RestartAnswers,
              trace |-> SentinelCalls]
    /\ Constructed

SpecSentinel == InitSentinel /\ [][Next]_vars

\* The fault register: the expansion may be missing in setup() and its detect
\* pin LOW in any loop(), and setup() may fail to start the network or the
\* Modbus server.  A client writes the heartbeat's register.
FaultCalls == {"setup", "Handler.update", "loop", "Heartbeat.dead", "Heartbeat.alive"}

InitFault ==
    /\ pc = "boot"
    /\ items = <<Relay("StableRelay", SWITCH_OFF, RESTORE), Heartbeat>>
    /\ env = [coils |-> {}, holding |-> {1}, expansion |-> BOOLEAN,
              setup |-> SetupAnswers, eth |-> EthernetAnswers, trace |-> FaultCalls]
    /\ Constructed

SpecFault == InitFault /\ [][Next]_vars

\* --------------------------------------------- a relay, called on its own
\* One relay of either kind with every pair of policies, its public methods
\* called in any order.
InitRelay ==
    /\ pc = "unit"
    /\ items \in {<<Relay(k, e, l)>> : k \in RelayKinds, e \in SafeAction, l \in SafeAction}
    /\ env = [coils |-> {0}, holding |-> {}, expansion |-> {TRUE},
              setup |-> GoodSetupAnswers, eth |-> LinkAnswers,
              trace |-> {"Relay.enterSafeState", "Relay.leaveSafeState",
                         "Relay.setFromCoil", "Relay.update"}]
    /\ Constructed

\* The history of a call of the relay's: whether enterSafeState has been
\* called since the last leaveSafeState, and a coil written since then.
Called(s, call, a, b) == Emit([s EXCEPT !.log = <<>>], Ev(call, 0, a, b))

\* Relay::enterSafeState, called from outside.  The log entry says whether
\* this is a repeated call (a) and whether a coil was written since the
\* first (b).
CallEnterSafeState ==
    /\ pc = "unit"
    /\ LET s1 == RelayEnterSafeState(State, 0)
           s2 == IF hist[0].entered THEN s1
                 ELSE [s1 EXCEPT !.hist[0] = [entered |-> TRUE, pre |-> dev[0].state,
                                              written |-> FALSE]]
       IN  Becomes(Called(s2, "Relay.enterSafeState", hist[0].entered, hist[0].written))
    /\ UNCHANGED <<pc, ticks>>

\* Relay::leaveSafeState, called from outside.
CallLeaveSafeState ==
    /\ pc = "unit"
    /\ LET s1 == RelayLeaveSafeState(State, 0)
       IN  Becomes(Called([s1 EXCEPT !.hist[0] = NewHist], "Relay.leaveSafeState",
                          dev[0].state, s1.dev[0].state))
    /\ UNCHANGED <<pc, ticks>>

\* Relay::setFromCoil, called from outside.
CallRelaySetFromCoil ==
    /\ pc = "unit"
    /\ \E val \in BOOLEAN :
          LET s1 == RelaySetFromCoil(State, 0, val)
          IN  Becomes(Called([s1 EXCEPT !.hist[0].written = @ \/ hist[0].entered],
                             "Relay.setFromCoil", dev[0].state, val))
    /\ UNCHANGED <<pc, ticks>>

\* SafeRelay::update / StableRelay::update, called from outside.
CallRelayUpdate ==
    /\ pc = "unit"
    /\ LET s1 == RelayUpdate(State, 0)
       IN  Becomes(Called(s1, "Relay.update", dev[0].state, s1.dev[0].state))
    /\ UNCHANGED <<pc, ticks>>

\* The clock steps between two calls.
RelayTick ==
    /\ pc = "unit"
    /\ ticks < MaxTicks
    /\ ticks' = ticks + 1
    /\ \E step \in TickSteps :
          Becomes([State EXCEPT !.now = (now + step) % ClockMod, !.log = <<>>])
    /\ UNCHANGED pc

NextRelay ==
    CallEnterSafeState \/ CallLeaveSafeState \/ CallRelaySetFromCoil
        \/ CallRelayUpdate \/ RelayTick

SpecRelay == InitRelay /\ [][NextRelay]_vars

\* ------------------------------- a SafeRelay's max-on time, set and read
\* One SafeRelay; setFromHolding is called with any 16-bit value, then
\* getHoldingValue.
InitMaxOnTime ==
    /\ pc = "unit"
    /\ items = <<Relay("SafeRelay", IGNORE, IGNORE)>>
    /\ env = [coils |-> {}, holding |-> {0}, expansion |-> {TRUE},
              setup |-> GoodSetupAnswers, eth |-> LinkAnswers,
              trace |-> {"Relay.setFromHolding", "Relay.getHoldingValue"}]
    /\ Constructed

\* SafeRelay::setFromHolding, called from outside with val (a); b is
\* _maxOnTime before the call.
CallRelaySetFromHolding ==
    /\ pc = "unit"
    /\ log = <<>>
    /\ \E val \in 0 .. (Uint16Mod - 1) :
          Becomes(Called(RelaySetFromHolding(State, 0, val), "Relay.setFromHolding",
                         val, dev[0].maxOnTime))
    /\ UNCHANGED <<pc, ticks>>

\* SafeRelay::getHoldingValue, called from outside after that; b is what it
\* returns.
CallRelayGetHoldingValue ==
    /\ pc = "unit"
    /\ Len(log) = 1
    /\ Becomes(Emit(State, Ev("Relay.getHoldingValue", 0, dev[0].maxOnTime,
                              RelayGetHoldingValue(State, 0))))
    /\ UNCHANGED <<pc, ticks>>

NextMaxOnTime == CallRelaySetFromHolding \/ CallRelayGetHoldingValue

SpecMaxOnTime == InitMaxOnTime /\ [][NextMaxOnTime]_vars

\* ================================================================= claims
ItemIdx == 0 .. (Len(items) - 1)
RelayIdx == {i \in ItemIdx : items[i + 1].kind \in RelayKinds}
HeartbeatIdx == {i \in ItemIdx : items[i + 1].kind = "Heartbeat"}
LogIdx == 1 .. Len(log)

\* loop() has just run ModbusHandler::update() to its end.
UpdateRan == pc = "looped" /\ log # <<>> /\ log[1].call = "Handler.update"
\* The coordinator was Normal when that update() began.
StartedNormal == UpdateRan /\ ~log[1].b
\* The link was down during that update().
LinkDownInCycle == UpdateRan /\ log[1].a
\* That update()'s Ethernet check ran and read the link as down.
CheckFoundDown == \E k \in LogIdx : log[k].call = "checkEthernet" /\ log[k].a
\* The heartbeat's deadline was found exceeded, alive before.
HeartbeatDied == \E k \in LogIdx : log[k].call = "Heartbeat.dead"
\* The coordinator entered safe state and called enterSafeState on every item.
EnteredAll ==
    \E k \in LogIdx :
        /\ log[k].call = "Handler.enterSafeState"
        /\ \A i \in ItemIdx :
              \E j \in LogIdx : j > k /\ log[j].call = "enterSafeState" /\ log[j].i = i

\* C1 (as claimed): at the end of every update(), a dead heartbeat implies
\* that the coordinator is in safe state.
C1_DeadImpliesSafe ==
    UpdateRan => \A h \in HeartbeatIdx : ~dev[h].alive => isSafeState

\* C2 (as claimed): at the end of every update(), if the last Ethernet check
\* read the link as down, the coordinator is in safe state.
C2_LinkDownImpliesSafe ==
    (UpdateRan /\ lastLink = "LinkOFF") => isSafeState

\* C3 (as claimed): an update() during which the link is down or the
\* heartbeat's deadline is first exceeded, begun in Normal, enters safe state
\* and broadcasts enterSafeState to every item.
C3_EntersInSameCycle ==
    (StartedNormal /\ (LinkDownInCycle \/ HeartbeatDied)) => EnteredAll

\* C3 (amended): an update() whose Ethernet check runs and reads the link as
\* down, or in which the heartbeat's deadline is first exceeded, begun in
\* Normal, enters safe state and broadcasts enterSafeState to every item.
C3_EntersWhenChecked ==
    (StartedNormal /\ (CheckFoundDown \/ HeartbeatDied)) => EnteredAll

\* An update() begun in Normal whose Ethernet check read the link as down and
\* that entered safe state, the heartbeat being alive.
C3_Witness ==
    /\ StartedNormal /\ CheckFoundDown /\ ~HeartbeatDied /\ EnteredAll
    /\ isSafeState

\* C4 (as claimed): right after a setup() in which the Modbus server did not
\* start, ERR_MODBUS is set and the coordinator is in safe state.
C4_InitFailureEntersSafeState ==
    (pc = "loop" /\ log # <<>> /\ log[1].call = "setup" /\ ~log[1].a)
        => (HasBit(errorCode, ERR_MODBUS) /\ isSafeState)

\* C5 (as claimed): at the end of every update() that leaves the coordinator
\* in safe state, each relay with enter policy SWITCH_ON is on and each with
\* SWITCH_OFF is off.
C5_ForcedLevelHeld ==
    (UpdateRan /\ isSafeState) =>
        \A i \in RelayIdx :
            /\ items[i + 1].enter = SWITCH_ON => dev[i].state
            /\ items[i + 1].enter = SWITCH_OFF => ~dev[i].state

\* A relay's leaveSafeState in the log: entry k - 1 holds the level before the
\* matching enter (a) and whether a coil write came in between (b), entry k
\* the level before (a) and after (b) the leave.
IsLeave(k) == k \in LogIdx /\ k > 2 /\ log[k].call = "leaveSafeState" /\ log[k].i \in RelayIdx
LevelBeforeEnter(k) == log[k - 1].a
CoilWrittenSince(k) == log[k - 1].b
LevelRemembered(k) == log[k - 2].a

\* C6 (as claimed): with leave policy RESTORE and no coil write during the
\* safe state, the level after leaveSafeState is the level before the matching
\* enterSafeState, for every enter policy.
C6_RestoreRoundTrip ==
    \A k \in LogIdx :
        (IsLeave(k) /\ items[log[k].i + 1].leave = RESTORE /\ ~CoilWrittenSince(k))
            => log[k].b = LevelBeforeEnter(k)

\* C6 (amended): the same for every enter policy but IGNORE; with enter policy
\* IGNORE the leave changes nothing.
C6_RestoreRoundTripUnlessIgnore ==
    \A k \in LogIdx :
        (IsLeave(k) /\ items[log[k].i + 1].leave = RESTORE /\ ~CoilWrittenSince(k))
            => IF items[log[k].i + 1].enter = IGNORE
               THEN log[k].b = log[k].a
               ELSE log[k].b = LevelBeforeEnter(k)

\* A restore that switched a relay back on after its auto-off.
C6_Witness ==
    \E k \in LogIdx :
        /\ IsLeave(k) /\ items[log[k].i + 1].leave = RESTORE /\ ~CoilWrittenSince(k)
        /\ items[log[k].i + 1].enter = RESTORE
        /\ LevelBeforeEnter(k) /\ ~log[k].a /\ log[k].b

\* What the leave policy asks of the level after the leave.
LeavePolicyApplied(k) ==
    LET it == items[log[k].i + 1]
    IN  /\ it.leave = IGNORE => log[k].b = log[k].a
        /\ it.leave = SWITCH_ON => log[k].b
        /\ it.leave = SWITCH_OFF => ~log[k].b
        /\ it.leave = RESTORE => log[k].b = LevelRemembered(k)

\* C8 (as claimed): when the coordinator leaves safe state every relay acts
\* on its leave policy, for every enter policy.
C8_LeavePolicy == \A k \in LogIdx : IsLeave(k) => LeavePolicyApplied(k)

\* C8 (amended): every relay whose enter policy is not IGNORE acts on its
\* leave policy; a relay whose enter policy is IGNORE is left as it is.
C8_LeavePolicyUnlessIgnore ==
    \A k \in LogIdx :
        IsLeave(k) => IF items[log[k].i + 1].enter = IGNORE
                      THEN log[k].b = log[k].a
                      ELSE LeavePolicyApplied(k)

\* A relay that had recorded the entry is switched on by its leave policy.
C8_Witness ==
    \E k \in LogIdx :
        /\ IsLeave(k) /\ items[log[k].i + 1].enter # IGNORE
        /\ items[log[k].i + 1].leave = SWITCH_ON /\ ~log[k].a /\ log[k].b

\* C7: a repeated Relay::enterSafeState, with no leaveSafeState since the
\* first, changes neither the output level nor the remembered level, also
\* after the output was changed between the two calls.
C7_EnterIdempotent ==
    [][(CallEnterSafeState /\ hist[0].entered) =>
            /\ dev'[0].state = dev[0].state
            /\ dev'[0].stateBeforeSafeState = dev[0].stateBeforeSafeState
            /\ dev'[0].inSafeState = dev[0].inSafeState]_vars

\* A repeated enterSafeState of a relay with enter policy SWITCH_OFF that a
\* coil write had switched back on: it stays on.
C7_Witness ==
    /\ pc = "unit" /\ log # <<>> /\ log[1].call = "Relay.enterSafeState"
    /\ log[1].a /\ log[1].b
    /\ items[1].enter = SWITCH_OFF /\ dev[0].inSafeState
    /\ dev[0].state /\ ~dev[0].stateBeforeSafeState

\* C9: a relay's enterSafeState leaves it on with enter policy SWITCH_ON, off
\* with SWITCH_OFF, and at its level with RESTORE or IGNORE.
C9_EnterPolicy ==
    \A k \in LogIdx :
        (log[k].call = "enterSafeState" /\ log[k].i \in RelayIdx) =>
            LET it == items[log[k].i + 1]
            IN  /\ it.enter = SWITCH_ON => log[k].b
                /\ it.enter = SWITCH_OFF => ~log[k].b
                /\ it.enter \in {RESTORE, IGNORE} => log[k].b = log[k].a

\* A relay that was on is switched off by its enter policy SWITCH_OFF.
C9_Witness ==
    \E k \in LogIdx :
        /\ log[k].call = "enterSafeState" /\ log[k].i \in RelayIdx
        /\ items[log[k].i + 1].enter = SWITCH_OFF /\ log[k].a /\ ~log[k].b

\* C10: between operations, every relay whose enter policy is not IGNORE is
\* in safe state exactly when the coordinator is.
C10_NoPartialSafeState ==
    \A i \in RelayIdx :
        items[i + 1].enter # IGNORE => dev[i].inSafeState = isSafeState

\* The heartbeat, updated between the two relays, triggered the broadcast.
C10_Witness ==
    /\ UpdateRan /\ HeartbeatDied /\ EnteredAll /\ isSafeState
    /\ \A i \in RelayIdx : dev[i].inSafeState
    /\ \E i \in RelayIdx, j \in RelayIdx, h \in HeartbeatIdx : i < h /\ h < j

\* ------------------------------------------------ register synchronisation
\* The entries of the last update()'s log.
LogOf(call) == {k \in LogIdx : log[k].call = call}
\* The register map when the last update() began (the end of the cycle
\* before), after its checkEthernet(), and as its items read it.
MapBegan == log[CHOOSE k \in LogOf("Handler.began") : TRUE].a
MapChecked == log[CHOOSE k \in LogOf("Handler.checked") : TRUE].a
MapPolled == log[CHOOSE k \in LogOf("Handler.polled") : TRUE].a
\* The request the last update() served.
Served == log[CHOOSE k \in LogOf("Handler.polled") : TRUE].b
\* The calls of item i's write accessors in the last update().
CoilCalls(i) == {k \in LogOf("setFromCoil") : log[k].i = i}
HoldingCalls(i) == {k \in LogOf("setFromHolding") : log[k].i = i}
\* The items that pull a coil, and those that pull a holding register.
CoilItems == {i \in ItemIdx : items[i + 1].kind \in RelayKinds}
HoldingItems ==
    {i \in ItemIdx : items[i + 1].kind \in RelayKinds \cup {"Heartbeat", "Variable"}}

\* C11: in every update(), an item whose register reads as it stood at the
\* end of the cycle before gets no call of its write accessor, and an item
\* whose register reads differently gets exactly one, with the value read.
C11_PullSuppression ==
    UpdateRan =>
        /\ \A i \in CoilItems :
              IF MapPolled[1][i] = MapBegan[1][i]
              THEN CoilCalls(i) = {}
              ELSE /\ Cardinality(CoilCalls(i)) = 1
                   /\ \A k \in CoilCalls(i) : log[k].a = MapPolled[1][i]
        /\ \A i \in HoldingItems :
              IF MapPolled[2][i] = MapBegan[2][i]
              THEN HoldingCalls(i) = {}
              ELSE /\ Cardinality(HoldingCalls(i)) = 1
                   /\ \A k \in HoldingCalls(i) : log[k].a = MapPolled[2][i]

\* A client wrote the heartbeat's register with the value it held: no call.
\* In the same run the valve, switched on by a coil write before, is on.
C11_Witness ==
    /\ UpdateRan
    /\ \E h \in HeartbeatIdx :
          /\ Served = [op |-> "holding", addr |-> h, val |-> 1]
          /\ MapBegan[2][h] = 1 /\ MapChecked[2][h] = 1
          /\ HoldingCalls(h) = {}
    /\ \E i \in CoilItems : dev[i].state /\ CoilCalls(i) = {}

\* C12 (as claimed): every call of a write accessor in an update() hands the
\* device the value of the client request served in that update().
C12_OnlyClientValues ==
    UpdateRan =>
        /\ \A k \in LogOf("setFromCoil") :
              Served = [op |-> "coil", addr |-> log[k].i, val |-> BoolToInt(log[k].a)]
        /\ \A k \in LogOf("setFromHolding") :
              Served = [op |-> "holding", addr |-> log[k].i, val |-> log[k].a]

\* C13 (as claimed): checkEthernet(), with the enterSafeState() and
\* exitSafeState() it calls, leaves the register map as it found it.
C13_CheckEthernetKeepsRegisters == UpdateRan => MapChecked = MapBegan

\* C14: the heartbeat's deadline.  Heartbeat::update runs before the item's
\* registers are read, so it sees the refresh timestamp the cycle started
\* with: it leaves the heartbeat alive exactly when at most HEARTBEAT_DELAY
\* milliseconds have passed since that refresh, and dead when more have.
C14_Deadline ==
    [][UpdateRan' =>
          \A h \in HeartbeatIdx :
              dev'[h].alive = (Elapsed(now', dev[h].lastChange) <= HEARTBEAT_DELAY)]_vars

\* A heartbeat a client refreshed is found dead by the first update() later
\* than the deadline, and no refresh has arrived since.
C14_Witness ==
    /\ UpdateRan
    /\ \E h \in HeartbeatIdx :
          /\ \E k \in LogIdx : log[k].call = "Heartbeat.dead" /\ log[k].i = h
          /\ dev[h].lastChange > 0
          /\ Elapsed(now, dev[h].lastChange) > HEARTBEAT_DELAY
          /\ ~dev[h].alive


\* C15, as stated: every write a client makes to the heartbeat's holding
\* register resets the refresh timestamp in the cycle that follows it,
\* whether or not the value written differs from the register's.
C15_EveryWriteRefreshes ==
    UpdateRan =>
        \A h \in HeartbeatIdx :
            (Served.op = "holding" /\ Served.addr = h) => dev[h].lastChange = now

\* C15, amended: the cycle resets the heartbeat's refresh timestamp exactly
\* when the register it reads differs from the register the previous cycle
\* left; a write of the value already there leaves the timestamp alone.
C15_ChangedWriteRefreshes ==
    [][UpdateRan' =>
          \A h \in HeartbeatIdx :
              dev'[h].lastChange = IF MapPolled'[2][h] # MapBegan'[2][h]
                                   THEN now' ELSE dev[h].lastChange]_vars

\* A client's write changed the heartbeat's register after the first cycle
\* and the cycle reset the timestamp.
C15_Witness ==
    /\ UpdateRan
    /\ \E h \in HeartbeatIdx :
          /\ Served.op = "holding" /\ Served.addr = h
          /\ MapChecked[2][h] = MapBegan[2][h]
          /\ MapPolled[2][h] # MapBegan[2][h]
          /\ HoldingCalls(h) # {}
          /\ dev[h].lastChange = now
          /\ ticks > 1


\* The calls named call that the heartbeat at address h made in the log l.
HeartbeatCalls(l, call, h) == {k \in 1 .. Len(l) : l[k].call = call /\ l[k].i = h}

\* C16: the heartbeat's notifications are edge-triggered.  An update() that
\* changes isAlive calls the handler once, enterSafeState when the heartbeat
\* dies and exitSafeState when it comes back, and the setter once with the
\* new state; an update() that leaves isAlive unchanged calls neither.
C16_EdgeTriggered ==
    [][UpdateRan' =>
          \A h \in HeartbeatIdx :
              LET dead   == HeartbeatCalls(log', "Heartbeat.dead", h)
                  alive  == HeartbeatCalls(log', "Heartbeat.alive", h)
                  setter == HeartbeatCalls(log', "Heartbeat.setter", h)
              IN  IF dev'[h].alive = dev[h].alive
                  THEN dead = {} /\ alive = {} /\ setter = {} /\ isAlive' = isAlive
                  ELSE /\ Cardinality(setter) = 1
                       /\ \A k \in setter : log'[k].a = dev'[h].alive
                       /\ isAlive' = dev'[h].alive
                       /\ IF dev'[h].alive
                          THEN Cardinality(alive) = 1 /\ dead = {}
                          ELSE Cardinality(dead) = 1 /\ alive = {}]_vars

\* A heartbeat that died comes back after a client's refresh: the update()
\* calls exitSafeState and the setter, and the coordinator leaves safe state.
C16_Witness ==
    /\ UpdateRan
    /\ \E h \in HeartbeatIdx :
          /\ HeartbeatCalls(log, "Heartbeat.alive", h) # {}
          /\ HeartbeatCalls(log, "Heartbeat.setter", h) # {}
          /\ dev[h].lastChange > 0
          /\ dev[h].alive
    /\ \E k \in LogIdx : log[k].call = "Handler.exitSafeState"


\* The call the relay of the unit run has just served.
RelayCall(l, call) == l # <<>> /\ l[1].call = call

\* C17: the SafeRelay's max-on time.  An update() of a SafeRelay that is on
\* leaves it on while at most _maxOnTime milliseconds have passed since the
\* on() that started it, and switches it off, clearing the start time, once
\* more have passed; no write of a client's takes part.
C17_MaxOnTime ==
    [][(RelayCall(log', "Relay.update") /\ items[1].kind = "SafeRelay" /\ dev[0].state) =>
          IF Elapsed(now', dev[0].startTime) <= dev[0].maxOnTime
          THEN dev'[0] = dev[0]
          ELSE ~dev'[0].state /\ dev'[0].startTime = 0]_vars

\* A SafeRelay that was on is switched off by an update() later than its
\* max-on time.
C17_Witness ==
    /\ items[1].kind = "SafeRelay"
    /\ RelayCall(log, "Relay.update")
    /\ log[1].a /\ ~log[1].b
    /\ ~dev[0].state
    /\ now > dev[0].maxOnTime


SafeRelayIdx == {i \in ItemIdx : items[i + 1].kind = "SafeRelay"}

\* The cycle logged in l switched relay r on through its coil: the register
\* the cycle read had changed to ON, and setFromCoil(true) was called.
OnByCoil(l, r) ==
    \E k \in 1 .. Len(l) : l[k].call = "setFromCoil" /\ l[k].i = r /\ l[k].a = TRUE

\* The cycle logged in l switched relay r on by its safe-state policy, on
\* entering or on leaving.
OnByPolicy(l, r) ==
    \E k \in 1 .. Len(l) :
        /\ l[k].call \in {"enterSafeState", "leaveSafeState"}
        /\ l[k].i = r
        /\ l[k].b = TRUE

\* C18: the max-on time is re-armed by every on() and fires once.  A
\* SafeRelay that is on after a cycle in which on() was called, by a coil
\* write that changed the register to ON or by a safe-state policy, has the
\* cycle's time as its start time; one that is on after a cycle without on()
\* was on before, with the same start time.  So a relay that is off, its
\* max-on time having fired or not, stays off until such an on().  Between
\* the cycles the relay does not change.
C18_ReArmedOneShot ==
    [][\A r \in SafeRelayIdx :
          IF UpdateRan'
          THEN /\ dev'[r].state =>
                     IF OnByCoil(log', r) \/ OnByPolicy(log', r)
                     THEN dev'[r].startTime = now'
                     ELSE dev[r].state /\ dev'[r].startTime = dev[r].startTime
               /\ OnByCoil(log', r) => MapPolled'[1][r] /\ ~MapBegan'[1][r]
          ELSE dev'[r] = dev[r]]_vars

\* Safe state switches on, again, a SafeRelay that has been on since an
\* earlier cycle: the start time becomes the time of this cycle.
C18_Witness ==
    /\ UpdateRan
    /\ \E r \in SafeRelayIdx :
          /\ \E k \in LogIdx :
                /\ log[k].call = "enterSafeState" /\ log[k].i = r
                /\ log[k].a = TRUE /\ log[k].b = TRUE
          /\ ~OnByCoil(log, r)
          /\ dev[r].state
          /\ dev[r].startTime = now
          /\ now > dev[r].maxOnTime


\* loop() has run an iteration; the level it read from the detect pin.
LoopRan == pc = "looped" /\ LogOf("loop") # {}
DetectPinHigh == log[CHOOSE k \in LogOf("loop") : TRUE].a

\* C19, as stated: every fault bit is set in the iteration of loop() that
\* detects its cause and cleared in the iteration in which the cause has
\* gone, so that after every iteration ERR_EXPANSION tells whether the detect
\* pin is LOW, ERR_MODBUS whether the Modbus server is not running and
\* ERR_HEARTBEAT whether the heartbeat is dead.
C19_BitsFollowCauses ==
    LoopRan =>
        /\ HasBit(errorCode, ERR_EXPANSION) = ~DetectPinHigh
        /\ HasBit(errorCode, ERR_MODBUS) = ~serverOk
        /\ HasBit(errorCode, ERR_HEARTBEAT) = ~isAlive


FaultBits == {ERR_HEARTBEAT, ERR_EXPANSION, ERR_MODBUS, ERR_GENERAL, ERR_SENSOR}

\* What one iteration of loop() makes of the state when the detect pin is at
\* level expansion, and what setup() makes of it when the server's start
\* answers srv.
LoopWith(eth, req, expansion) ==
    SketchLoop([State EXCEPT !.log = <<>>],
               Inputs(eth, req, CHOOSE p \in PinSamples(State) : TRUE, expansion))
SetupWith(eth, srv, expansion) ==
    SketchSetup(State, Inputs([eth EXCEPT !.srv = srv], NoRequest,
                              CHOOSE p \in PinSamples(State) : TRUE, expansion))

\* The parts of the state other than the fault register and the history.
Controlled(s) ==
    <<s.isSafeState, s.dev, s.coils, s.holding, s.discrete, s.inputRegs, s.linkWasDown,
      s.wasAlive, s.isAlive>>

\* setup() leaves the safe-state flag, the relays and the other bits the same
\* whether or not it sets ERR_EXPANSION or ERR_MODBUS.
SetupFaultsApart ==
    pc = "boot" =>
        \A eth \in env.setup, srv \in BOOLEAN :
            /\ Controlled(SetupWith(eth, srv, FALSE)) = Controlled(SetupWith(eth, srv, TRUE))
            /\ SetupWith(eth, srv, FALSE).errorCode
                  = SetupWith(eth, srv, TRUE).errorCode + ERR_EXPANSION
            /\ \A b \in FaultBits \ {ERR_MODBUS} :
                  HasBit(SetupWith(eth, FALSE, TRUE).errorCode, b)
                     = HasBit(SetupWith(eth, TRUE, TRUE).errorCode, b)
            /\ SetupWith(eth, FALSE, TRUE).isSafeState = SetupWith(eth, TRUE, TRUE).isSafeState
            /\ SetupWith(eth, FALSE, TRUE).dev = SetupWith(eth, TRUE, TRUE).dev

\* An iteration of loop() leaves the safe-state flag, the relays, the
\* registers and the other bits the same whether or not it sets
\* ERR_EXPANSION.
LoopFaultsApart ==
    pc = "loop" =>
        \A eth \in env.eth, req \in Requests(State) :
            /\ Controlled(LoopWith(eth, req, FALSE)) = Controlled(LoopWith(eth, req, TRUE))
            /\ \A b \in FaultBits \ {ERR_EXPANSION} :
                  HasBit(LoopWith(eth, req, FALSE).errorCode, b)
                     = HasBit(LoopWith(eth, req, TRUE).errorCode, b)

\* C20: the fault bits are independent.  In setup() and in every iteration
\* of loop() each bit of errorCode changes by its own cause alone: ERR_MODBUS
\* is set by a failed begin(), ERR_EXPANSION by a missing expansion or a LOW
\* detect pin, ERR_HEARTBEAT follows the edges of isAlive, and the other bits
\* stay as they are.  An iteration that sets ERR_EXPANSION, and a setup()
\* that sets ERR_EXPANSION or ERR_MODBUS, leaves the safe-state flag and
\* every relay as the same call leaves them without the fault.
C20_BitsIndependent ==
    /\ [](SetupFaultsApart /\ LoopFaultsApart)
    /\ [][/\ pc = "boot" =>
              /\ \A b \in {ERR_HEARTBEAT, ERR_GENERAL, ERR_SENSOR} :
                     HasBit(errorCode', b) = HasBit(errorCode, b)
              /\ HasBit(errorCode', ERR_MODBUS) = (HasBit(errorCode, ERR_MODBUS) \/ ~serverOk')
              /\ isSafeState' = isSafeState
              /\ \A r \in RelayIdx : dev'[r].state = dev[r].state
         /\ LoopRan' =>
              /\ \A b \in {ERR_MODBUS, ERR_GENERAL, ERR_SENSOR} :
                     HasBit(errorCode', b) = HasBit(errorCode, b)
              /\ HasBit(errorCode', ERR_EXPANSION)
                     = (HasBit(errorCode, ERR_EXPANSION) \/ ~DetectPinHigh')
              /\ HasBit(errorCode', ERR_HEARTBEAT)
                     = IF isAlive' # wasAlive THEN ~isAlive' ELSE HasBit(errorCode, ERR_HEARTBEAT)]_vars

\* An iteration of loop() sets ERR_EXPANSION while ERR_MODBUS and
\* ERR_HEARTBEAT are set already and the coordinator is in safe state: the
\* three bits stand together.
C20_Witness ==
    /\ LoopRan
    /\ ~DetectPinHigh
    /\ ~HasBit(log[CHOOSE k \in LogOf("loop") : TRUE].b, ERR_EXPANSION)
    /\ errorCode = ERR_HEARTBEAT + ERR_EXPANSION + ERR_MODBUS
    /\ isSafeState


\* The items that are a Variable without a setter.
ReadOnlyIdx == {i \in ItemIdx : items[i + 1].name = "errorCodeVar"}

\* What the entry "Item.updated" of item i says in the log l.
Updated(l, i) == l[CHOOSE k \in 1 .. Len(l) : l[k].call = "Item.updated" /\ l[k].i = i]

\* C21: a Variable without a setter is read-only.  Whatever a client wrote to
\* its register, when the item's update() returns the register and the cache
\* hold the getter's value, and errorCode is what it was when loop() began.
C21_ReadOnlyVariable ==
    [][UpdateRan' =>
          \A i \in ReadOnlyIdx :
              /\ Updated(log', i).a.holding = Updated(log', i).b % Uint16Mod
              /\ Updated(log', i).a.lastValue = Updated(log', i).a.holding
              /\ Updated(log', i).b = errorCode
              /\ errorCode' = errorCode]_vars

\* A client wrote 1 to the fault word's register while errorCode was
\* ERR_MODBUS: setFromHolding(1) was called, errorCode is as it was and the
\* register holds it again.
C21_Witness ==
    /\ UpdateRan
    /\ \E i \in ReadOnlyIdx :
          /\ Served = [op |-> "holding", addr |-> i, val |-> 1]
          /\ \E k \in HoldingCalls(i) : log[k].a = 1
          /\ errorCode = ERR_MODBUS
          /\ holding[i] = ERR_MODBUS


\* The input items, and the writes item i made to its register in the log l.
InputIdx == {i \in ItemIdx : items[i + 1].kind \in {"DiscreteInput", "AnalogInput"}}
InputWrites(l, i) ==
    {k \in 1 .. Len(l) :
        l[k].call \in {"discreteInputWrite", "inputRegisterWrite"} /\ l[k].i = i}
\* The value an input read in the cycle logged in l, as the cache holds it.
Sample(l, i) ==
    IF items[i + 1].kind = "DiscreteInput"
    THEN BoolToInt(Updated(l, i).a.getDiscrete)
    ELSE Updated(l, i).a.getInput
\* The value an input read in the cycle before.
SampleBefore(i) ==
    IF items[i + 1].kind = "DiscreteInput" THEN BoolToInt(dev[i].state) ELSE dev[i].val

\* C22: change suppression on the push side.  A cycle writes an input's
\* register once, with the sample, if the sample differs from the cached
\* value, which is the value the item wrote last and the sample of the cycle
\* before (0 at first); it makes no write if the sample is the same.
C22_PushSuppression ==
    [][UpdateRan' =>
          \A i \in InputIdx :
              /\ lastValue[i] = SampleBefore(i)
              /\ Cardinality(InputWrites(log', i))
                    = IF Sample(log', i) # lastValue[i] THEN 1 ELSE 0
              /\ \A k \in InputWrites(log', i) :
                    log'[k].a = IF items[i + 1].kind = "DiscreteInput"
                                THEN IntToBool(Sample(log', i)) ELSE Sample(log', i)]_vars

\* A digital input falls back to 0 and its register is written, while an
\* analog input reads 1 as before and its register is left alone.
C22_Witness ==
    /\ UpdateRan
    /\ \E i \in InputIdx :
          /\ items[i + 1].kind = "DiscreteInput"
          /\ \E k \in InputWrites(log, i) : log[k].a = FALSE
    /\ \E i \in InputIdx :
          /\ items[i + 1].kind = "AnalogInput"
          /\ dev[i].val = 1 /\ inputRegs[i] = 1
          /\ InputWrites(log, i) = {}


\* The calls ModbusItem::update makes, and those that exchange a value with
\* the register map: the pull's and the push's.
IsItemCall(e) == e.call \in {"update", "updateFromModbus", "updateToModbus"}
PullCalls == {"setFromCoil", "setFromHolding"}
PushCalls ==
    {"coilWrite", "holdingRegisterWrite", "discreteInputWrite", "inputRegisterWrite"}
\* Where item i's call is in the log.
At(call, i) == CHOOSE k \in LogIdx : log[k].call = call /\ log[k].i = i

\* C23: the order of a cycle.  The calls of the cycle are, item after item in
\* list order, the device's update(), then updateFromModbus, then
\* updateToModbus, each once; an item's pull calls lie between its
\* updateFromModbus and its updateToModbus, its register writes between its
\* updateToModbus and the return of its update().
C23_CycleOrder ==
    UpdateRan =>
        LET calls == SelectSeq(log, IsItemCall)
        IN  /\ Len(calls) = 3 * Len(items)
            /\ \A i \in ItemIdx :
                  /\ calls[3 * i + 1].call = "update" /\ calls[3 * i + 1].i = i
                  /\ calls[3 * i + 2].call = "updateFromModbus" /\ calls[3 * i + 2].i = i
                  /\ calls[3 * i + 3].call = "updateToModbus" /\ calls[3 * i + 3].i = i
                  /\ \A k \in LogIdx :
                        /\ (log[k].call \in PullCalls /\ log[k].i = i)
                              => At("updateFromModbus", i) < k /\ k < At("updateToModbus", i)
                        /\ (log[k].call \in PushCalls /\ log[k].i = i)
                              => At("updateToModbus", i) < k /\ k < At("Item.updated", i)

\* A cycle in which a relay takes a client's coil write and an input's
\* register is written.
C23_Witness ==
    /\ UpdateRan
    /\ \E i \in CoilItems : CoilCalls(i) # {} /\ dev[i].state
    /\ \E i \in InputIdx : InputWrites(log, i) # {}


\* The calls that read or write a register, the space's offset of each, and
\* the address on the wire of the access logged in e.
AccessCalls == PushCalls \cup {"coilRead", "holdingRegisterRead"}
OffsetOf(call) ==
    CASE call \in {"coilRead", "coilWrite"} -> MODBUS_COIL_OFFSET
      [] call \in {"holdingRegisterRead", "holdingRegisterWrite"} -> MODBUS_HOLDING_OFFSET
      [] call = "discreteInputWrite" -> MODBUS_DISCRETE_OFFSET
      [] call = "inputRegisterWrite" -> MODBUS_INPUT_OFFSET
Address(e) == OffsetOf(e.call) + e.i
\* The accesses item i may make: those of its kind's register spaces.
AccessesOf(i) ==
    CASE items[i + 1].kind \in RelayKinds ->
            {"coilRead", "coilWrite", "holdingRegisterRead", "holdingRegisterWrite"}
      [] items[i + 1].kind \in {"Heartbeat", "Variable"} ->
            {"holdingRegisterRead", "holdingRegisterWrite"}
      [] items[i + 1].kind = "DiscreteInput" -> {"discreteInputWrite"}
      [] items[i + 1].kind = "AnalogInput" -> {"inputRegisterWrite"}
\* The register accesses in the log made during item i's update().
AccessesBy(i) ==
    {k \in LogIdx : /\ log[k].call \in AccessCalls
                    /\ At("update", i) < k /\ k < At("Item.updated", i)}

\* C24: the item at list position i reads and writes only the registers at
\* offset + i of its kind's register spaces (the coil and the holding space
\* for a relay, one space otherwise), every register access of a cycle is
\* made by some item, and no two items access the same register.
C24_OwnRegistersOnly ==
    UpdateRan =>
        LET from == [i \in ItemIdx |-> At("update", i)]
            to == [i \in ItemIdx |-> At("Item.updated", i)]
            accesses == {k \in LogIdx : log[k].call \in AccessCalls}
            by == [k \in accesses |-> {i \in ItemIdx : from[i] < k /\ k < to[i]}]
        IN  /\ \A k \in accesses :
                  /\ Cardinality(by[k]) = 1
                  /\ \A i \in by[k] :
                        /\ log[k].call \in AccessesOf(i)
                        /\ Address(log[k]) = OffsetOf(log[k].call) + i
            /\ \A k, m \in accesses :
                  by[k] # by[m] => Address(log[k]) # Address(log[m])

\* A cycle in which the relay reads both of its registers and writes its
\* coil, an input after it writes its register, and the fault word's item
\* reads the holding register at its own address.
C24_Witness ==
    /\ UpdateRan
    /\ \E i \in CoilItems :
          {"coilRead", "coilWrite", "holdingRegisterRead"}
             \subseteq {log[k].call : k \in AccessesBy(i)}
    /\ \E i \in InputIdx :
          /\ i > 0
          /\ \E k \in AccessesBy(i) : Address(log[k]) = MODBUS_INPUT_OFFSET + i
    /\ \E i \in ReadOnlyIdx :
          /\ i > 0
          /\ \E k \in AccessesBy(i) : Address(log[k]) = MODBUS_HOLDING_OFFSET + i


\* C25: the gate of the cycle.  An iteration of loop() runs the handler's
\* update() if and only if at least updateInterval has passed since the last
\* run, and then the last run's time is now; otherwise it leaves the
\* devices, the caches, the registers, the coordinator and the last run's
\* time as they are.
C25_CycleGate ==
    [][(pc = "loop" /\ pc' = "looped") =>
          /\ UpdateRan' <=> (Elapsed(now, lastUpdate) >= updateInterval)
          /\ UpdateRan' => lastUpdate' = now
          /\ ~UpdateRan' =>
                UNCHANGED <<dev, lastValue, lastValue2, coils, holding, discrete,
                            inputRegs, serverOk, linkWasDown, isSafeState, nextCheck,
                            lastUpdate, updateInterval>>]_vars

\* A client has set updateInterval to more than the clock's short step: the
\* iteration one short step after a cycle skipped it.
C25_Witness ==
    /\ pc = "looped"
    /\ ~UpdateRan
    /\ updateInterval = TickMs + 100
    /\ Elapsed(now, lastUpdate) = TickMs


\* C26: the max-on time through its register.  After setFromHolding(v), for
\* every 16-bit v, _maxOnTime is 1000 * v ms, a value of 32 bits (its upper
\* half fits 16 bits), and the getHoldingValue() that follows returns v.
C26_MaxOnRoundTrip ==
    /\ (Len(log) >= 1 /\ log[1].call = "Relay.setFromHolding") =>
          /\ dev[0].maxOnTime = MsPerSecond * log[1].a
          /\ dev[0].maxOnTime \div Uint16Mod < Uint16Mod
    /\ (Len(log) = 2 /\ log[2].call = "Relay.getHoldingValue") =>
          /\ log[2].a = MsPerSecond * log[1].a
          /\ log[2].b = log[1].a

\* The largest value, 65535 s, went through setFromHolding and came back
\* from getHoldingValue.
C26_Witness ==
    /\ Len(log) = 2
    /\ log[1].call = "Relay.setFromHolding" /\ log[1].a = Uint16Mod - 1
    /\ log[2].call = "Relay.getHoldingValue" /\ log[2].b = Uint16Mod - 1
    /\ dev[0].maxOnTime = 65535000


\* The calls of the safe-state broadcast: the coordinator changing its flag
\* and the items' enterSafeState and exitSafeState.
IsBroadcastCall(e) ==
    e.call \in {"Handler.enterSafeState", "Handler.exitSafeState",
                "enterSafeState", "leaveSafeState"}
RECURSIVE Broadcasts(_, _, _)
\* calls is a sequence of whole broadcasts that takes the flag from f to g:
\* each begins with the coordinator changing the flag, to safe from Normal or
\* to Normal from safe, and goes on with the matching call on every item,
\* once each, in list order.
Broadcasts(calls, f, g) ==
    IF calls = <<>> THEN f = g
    ELSE /\ Len(calls) >= 1 + Len(items)
         /\ calls[1].call = IF f THEN "Handler.exitSafeState" ELSE "Handler.enterSafeState"
         /\ \A i \in ItemIdx :
               /\ calls[2 + i].call = IF f THEN "leaveSafeState" ELSE "enterSafeState"
               /\ calls[2 + i].i = i
         /\ Broadcasts(SubSeq(calls, 2 + Len(items), Len(calls)), ~f, g)

\* C27: the safe-state broadcasts.  In every step the items' enterSafeState
\* and exitSafeState are called only in whole broadcasts, every item once in
\* list order, each where the coordinator's flag changes: an enterSafeState()
\* of the coordinator in safe state and an exitSafeState() in Normal call no
\* item.
C27_IdempotentBroadcasts ==
    [][Broadcasts(SelectSeq(log', IsBroadcastCall), isSafeState, isSafeState')]_vars

\* The Ethernet check found the link down in Normal and the coordinator
\* called every item; the heartbeat died later in the same cycle and made the
\* coordinator enter safe state again, which called no item.
C27_Witness ==
    /\ StartedNormal /\ CheckFoundDown /\ HeartbeatDied /\ isSafeState
    /\ Len(SelectSeq(log, IsBroadcastCall)) = 1 + Len(items)
    /\ \E k, m \in LogIdx :
          /\ log[k].call = "Handler.enterSafeState"
          /\ log[m].call = "Heartbeat.dead"
          /\ k < m


\* What the entry "Item.updated" of item i shows at the end of its update():
\* whether the cache, the register and the device's getter agree, in every
\* register space of the item's kind.
InSync(v, kind) ==
    CASE kind \in RelayKinds ->
            /\ v.coil = v.getCoil /\ IntToBool(v.lastValue) = v.getCoil
            /\ v.holding = v.getHolding /\ v.lastValue2 = v.getHolding
      [] kind \in {"Heartbeat", "Variable"} ->
            v.holding = v.getHolding /\ v.lastValue = v.getHolding
      [] kind = "DiscreteInput" ->
            v.discrete = v.getDiscrete /\ IntToBool(v.lastValue) = v.getDiscrete
      [] kind = "AnalogInput" ->
            v.input = v.getInput /\ v.lastValue = v.getInput

\* C28, as stated: when an item's update() returns, its cache, its register
\* and the device's getter hold the same value, for every kind of item (for
\* a relay the coil with _lastValue and the holding register with
\* _lastValue2).
C28_CacheRegisterDeviceEqual ==
    UpdateRan => \A i \in ItemIdx : InSync(Updated(log, i).a, items[i + 1].kind)


\* Where item i's call is in the log l.
PosIn(l, call, i) == CHOOSE k \in 1 .. Len(l) : l[k].call = call /\ l[k].i = i
\* The safe-state calls in the log l that changed relay i's level.
LevelChanges(l, i) ==
    {k \in 1 .. Len(l) : /\ l[k].call \in {"enterSafeState", "leaveSafeState"}
                         /\ l[k].i = i
                         /\ l[k].a # l[k].b}
\* Those before relay i's update() of the cycle, and those after it.
ChangesBefore(l, i) == {k \in LevelChanges(l, i) : k < PosIn(l, "update", i)}
ChangesAfter(l, i) == {k \in LevelChanges(l, i) : k > PosIn(l, "Item.updated", i)}
\* The coil register of relay i as its update() of the cycle logged in l
\* reads it, and whether the cycle served a client's write of that coil.
PolledCoil(l, i) == l[PosIn(l, "Handler.polled", -1)].a[1][i]
ClientWroteCoil(l, i) ==
    LET req == l[PosIn(l, "Handler.polled", -1)].b
    IN  req.op = "coil" /\ req.addr = i

\* C29: a level set by safe state is not undone by the register.  When a
\* relay's update() returns its coil holds its level, so that the two differ
\* at the end of an iteration only by a safe-state call made after it.  When
\* such a call, of the iteration before or of this cycle before the relay's
\* update(), changed the level to one that differs from the coil register
\* and no client wrote the coil since, the relay's update() of this cycle
\* calls no setFromCoil and writes the level into the coil.
C29_PolicyLevelKept ==
    [][UpdateRan' =>
          \A i \in CoilItems :
              LET view == log'[PosIn(log', "Item.updated", i)].a
                  before == ChangesBefore(log', i)
                  level == IF before = {} THEN dev[i].state
                           ELSE log'[CHOOSE k \in before : \A m \in before : m <= k].b
              IN  /\ view.coil = view.getCoil
                  /\ dev'[i].state # view.getCoil => ChangesAfter(log', i) # {}
                  /\ (/\ before # {} \/ dev[i].state # coils[i]
                      /\ level # PolledCoil(log', i)
                      /\ ~ClientWroteCoil(log', i))
                        => /\ \A k \in 1 .. Len(log') :
                                 ~(log'[k].call = "setFromCoil" /\ log'[k].i = i)
                           /\ \E k \in 1 .. Len(log') :
                                 /\ log'[k].call = "coilWrite" /\ log'[k].i = i
                                 /\ log'[k].a = level
                           /\ view.coil = level /\ view.getCoil = level]_vars


\* The SafeRelays, and the calls of on() of relay i in the log l.
SafeRelays == {i \in ItemIdx : items[i + 1].kind = "SafeRelay"}
OnCalls(l, i) == {k \in 1 .. Len(l) : l[k].call = "on" /\ l[k].i = i}
\* Whether the log l has a call of on() of relay i before its entry k.
OnBefore(l, i, k) == \E m \in OnCalls(l, i) : m < k

\* C30: the bounded on-time.  _startTime of a relay that is on is the time of
\* its last on(): a step that calls on() leaves it on since now or off, and a
\* step that does not leaves it on since when it was or off.  Right after
\* every update() of a SafeRelay, in Normal and in safe state, a relay that
\* is on has been on since its last on() for at most the max-on time it has
\* then, whatever a client wrote to the max-on register.
C30_BoundedOnTime ==
    [][\A i \in SafeRelays :
          /\ dev'[i].state =>
                IF OnCalls(log', i) # {}
                THEN dev'[i].startTime = now'
                ELSE dev[i].state /\ dev'[i].startTime = dev[i].startTime
          /\ \A k \in 1 .. Len(log') :
                (log'[k].call = "Device.updated" /\ log'[k].i = i /\ log'[k].a.state) =>
                    LET lastOn == IF OnBefore(log', i, k) THEN now' ELSE dev[i].startTime
                    IN  Elapsed(now', lastOn) <= log'[k].a.maxOnTime]_vars

\* The relay has been on for a long step of the clock, within the max-on
\* time it had at its update(); in the same cycle a client's write lowers the
\* max-on time to 1 s, and the relay stays on until its next update().
C30_Witness ==
    /\ UpdateRan
    /\ \E i \in SafeRelays : \E k \in LogIdx :
          /\ log[k].call = "Device.updated" /\ log[k].i = i
          /\ log[k].a.state
          /\ log[k].a.maxOnTime = RELAY_MAX_ON
          /\ Elapsed(now, log[k].a.startTime) = LongTickMs
          /\ \E m \in HoldingCalls(i) : m > k /\ log[m].a = 1
          /\ dev[i].state /\ dev[i].maxOnTime = MsPerSecond


\* C31: the heartbeat's fault bit.  At the end of every iteration of loop()
\* ERR_HEARTBEAT is set in errorCode if and only if isAlive, the flag the
\* heartbeat's setter writes, is false; wasAlive has caught up with it.
C31_HeartbeatBit ==
    LoopRan => /\ HasBit(errorCode, ERR_HEARTBEAT) = ~isAlive
               /\ wasAlive = isAlive

\* The heartbeat came back in this iteration: the bit was set when loop()
\* began and is clear at its end.
C31_Witness ==
    /\ LoopRan
    /\ LogOf("Heartbeat.alive") # {}
    /\ \E k \in LogOf("loop") : HasBit(log[k].b, ERR_HEARTBEAT)
    /\ isAlive /\ ~HasBit(errorCode, ERR_HEARTBEAT)


\* C32: the grace period after boot.  While no write has refreshed the
\* heartbeat (_lastChange is 0, as constructed), every update() leaves it
\* alive up to HEARTBEAT_DELAY milliseconds after boot, the first one
\* included, and dead later; the update() in which it dies calls the
\* coordinator's enterSafeState(), so that the coordinator and every relay
\* with an enter policy are in safe state when it returns.
C32_BootGrace ==
    [][UpdateRan' =>
          \A h \in HeartbeatIdx :
              (dev'[h].lastChange = 0 /\ HoldingCalls(h)' = {}) =>
                  /\ dev'[h].alive = (now' <= HEARTBEAT_DELAY)
                  /\ (dev[h].alive /\ ~dev'[h].alive) =>
                        /\ HeartbeatCalls(log', "Heartbeat.dead", h) # {}
                        /\ isSafeState'
                        /\ \A i \in RelayIdx :
                              items[i + 1].enter # IGNORE => dev'[i].inSafeState
                        /\ ~isSafeState =>
                              \A i \in RelayIdx : \E k \in 1 .. Len(log') :
                                  log'[k].call = "enterSafeState" /\ log'[k].i = i]_vars

\* No client has written the heartbeat's register and the link is up; the
\* first update() later than HEARTBEAT_DELAY after boot finds the heartbeat
\* dead and takes the coordinator from Normal to safe state.
C32_Witness ==
    /\ StartedNormal /\ ~LinkDownInCycle
    /\ now > HEARTBEAT_DELAY
    /\ \E h \in HeartbeatIdx :
          /\ dev[h].lastChange = 0 /\ ~dev[h].alive
          /\ HeartbeatCalls(log, "Heartbeat.dead", h) # {}
    /\ isSafeState
    /\ \E i \in RelayIdx : dev[i].inSafeState /\ dev[i].state


\* C33: the heartbeat's recovery.  When the heartbeat is dead and the cycle
\* before pulled a refresh (_lastChange is the time of that cycle), the
\* update() of this cycle sets the heartbeat and isAlive to alive and calls
\* the coordinator's exitSafeState(), once, and ERR_HEARTBEAT is clear when
\* the iteration of loop() ends.
C33_Recovery ==
    [][UpdateRan' =>
          \A h \in HeartbeatIdx :
              (~dev[h].alive /\ lastUpdate > 0 /\ dev[h].lastChange = lastUpdate) =>
                  /\ dev'[h].alive /\ isAlive'
                  /\ Cardinality(HeartbeatCalls(log', "Heartbeat.alive", h)) = 1
                  /\ \E k \in 1 .. Len(log') :
                        log'[k].call = "Heartbeat.setter" /\ log'[k].i = h /\ log'[k].a
                  /\ ~HasBit(errorCode', ERR_HEARTBEAT)]_vars

\* The heartbeat died after its grace period, a refresh was pulled in the
\* cycle a short step ago, and this cycle's update() brought it back: the
\* coordinator began the cycle in safe state and has left it.
C33_Witness ==
    /\ UpdateRan /\ log[1].b /\ ~isSafeState
    /\ now > HEARTBEAT_DELAY
    /\ \E h \in HeartbeatIdx :
          /\ HeartbeatCalls(log, "Heartbeat.alive", h) # {}
          /\ Elapsed(now, dev[h].lastChange) = TickMs
          /\ dev[h].alive
    /\ isAlive /\ ~HasBit(errorCode, ERR_HEARTBEAT)


\* C34, as stated: a heartbeat that has died and that no write refreshes
\* (here no client writes its register at all) stays dead at every later
\* update(), also after millis() has wrapped.
C34_StaysDead ==
    [][UpdateRan' =>
          \A h \in HeartbeatIdx :
              (~dev[h].alive /\ ~isAlive /\ dev'[h].lastChange = dev[h].lastChange)
                  => ~dev'[h].alive]_vars


\* C35: a broadcast of the coordinator, enterSafeState or exitSafeState,
\* leaves the register map, the shadow caches of every binding, the max-on
\* time of every SafeRelay, the input samples, the variables, errorCode and
\* the heartbeat's alive flag and refresh timestamp as they were: of the
\* devices it changes a relay's output level, remembered level, safe-state
\* flag and start time, and nothing else.
C35_BroadcastFrame ==
    \A k \in LogIdx :
        log[k].call \in {"Handler.entered", "Handler.exited"} => log[k].b = log[k].a

\* A cycle in which the link is back, so that the coordinator leaves safe
\* state, and the heartbeat has died, so that it enters it again, with a
\* client's values in the registers and in the relay's max-on time.
C35_Witness ==
    /\ \E k \in LogIdx : log[k].call = "Handler.exited"
    /\ \E k \in LogIdx :
          /\ log[k].call = "Handler.entered"
          /\ log[k].a.holding[1] # 0
          /\ log[k].a.dev[0].maxOnTime # RELAY_MAX_ON
          /\ log[k].a.discrete[2]
    /\ dev[0].state /\ dev[0].inSafeState /\ dev[0].startTime = now
    /\ ~coils[0]

\* The relays that have no holding parameter.
StableRelays == {i \in RelayIdx : items[i + 1].kind = "StableRelay"}

\* The request served in this cycle is a write of v into the holding register
\* of item i.
ClientWroteHolding(i, v) ==
    \E k \in LogOf("Handler.polled") :
        log[k].b = [op |-> "holding", addr |-> BaseAddress(State, i), val |-> v]

\* C36: the holding register at the index of a StableRelay, a Coil-kind binding
\* whose device has no holding parameter, holds INVALID_VALUE when the
\* binding's update returns and when the cycle ends; a client's write of
\* another value into it leaves the device's output level as it was, whether
\* or not the value is handed to the device, and is overwritten with
\* INVALID_VALUE in the same cycle.
C36_SentinelHeld ==
    UpdateRan =>
        \A i \in StableRelays :
            /\ holding[BaseAddress(State, i)] = INVALID_VALUE
            /\ lastValue2[i] = INVALID_VALUE
            /\ \A k \in LogOf("Item.updated") :
                  log[k].i = i => log[k].a.holding = INVALID_VALUE
            /\ \A v \in ClientVals :
                  ClientWroteHolding(i, v) =>
                      /\ \E w \in LogOf("holdingRegisterWrite") :
                            /\ Address(log[w]) = MODBUS_HOLDING_OFFSET + BaseAddress(State, i)
                            /\ log[w].a = INVALID_VALUE
                            /\ \A c \in LogOf("setFromHolding") : log[c].i = i => c < w
                      /\ \A d \in LogOf("Device.updated"), u \in LogOf("Item.updated") :
                            (/\ log[d].i = i /\ log[u].i = i
                             /\ \A f \in LogOf("setFromCoil") : log[f].i # i)
                                => log[u].a.getCoil = log[d].a.state

\* A client writes 1 into the holding register of a relay that is off and in
\* no safe state: the relay stays off and the register reads INVALID_VALUE
\* again.
C36_Witness ==
    /\ UpdateRan
    /\ \E i \in StableRelays :
          /\ ClientWroteHolding(i, 1)
          /\ \E c \in LogOf("setFromHolding") : log[c].i = i /\ log[c].a = 1
          /\ LogOf("setFromCoil") = {}
          /\ ~dev[i].state /\ ~dev[i].inSafeState
          /\ holding[BaseAddress(State, i)] = INVALID_VALUE

====
